---- MODULE Spec2Model ----
(***************************************************************************)
(* LinkedIn profile-picture auto updater.                                  *)
(*                                                                         *)
(* The parts of the repository that are modelled, each under its own       *)
(* specification:                                                          *)
(*   - the backend RateLimiter (backend/image-generator.js), under         *)
(*     SpecRateLimiter;                                                    *)
(*   - the backend image store (getStoredImages, clearStoredImages and     *)
(*     the GET/DELETE /images routes), under SpecStore;                    *)
(*   - ImageGenerator.generateImages and the routes that call it, under    *)
(*     SpecGenerate, and the local transform strategy, under SpecLocal;    *)
(*   - the content script's updateProfilePicture in the page, under        *)
(*     SpecPage;                                                           *)
(*   - the extension's background service worker (LinkedInAutoUpdater),    *)
(*     the popup's settings writes and the content script's message        *)
(*     listener (LinkedInAutomation), under SpecTick (one scheduled or     *)
(*     forced update, from trigger to stored index) and SpecSched (worker  *)
(*     start, settings saves and the alarm they register), SpecPopup (a  *)
(*     settings save around a forced update) and SpecAlarm (the times at   *)
(*     which the alarm fires);                                             *)
(*   - two callers of one RateLimiter, under SpecShared; the               *)
(*     GET /images/:filename route, under SpecServe; two overlapping       *)
(*     generateImages calls, under SpecOverlap.                            *)
(* Every asynchronous function is cut at its awaits: one action per        *)
(* synchronous stretch of code.                                            *)
(***************************************************************************)
EXTENDS Integers, Sequences, FiniteSets, TLC

\* ------------------------------------------------------------------------
\* Bounds of the model
\* ------------------------------------------------------------------------
MaxCalls == 11          \* RateLimiter.wait() calls issued in one behaviour
MaxSharedCalls == 7     \* wait() calls of two callers sharing one RateLimiter
MaxTime == 122000       \* the backend clock stops advancing here (ms)
MaxOverlapTime == 2     \* milliseconds that pass while generate calls overlap
MaxDom == 2             \* button-like elements of a page
MaxSkips == 1           \* items that fail in one local-strategy call
MaxFaults == 3          \* steps that fail in one generateImages call
Delays == {30000, 31000} \* amounts of time that may pass between two steps (ms)

\* ------------------------------------------------------------------------
\* Program constants
\* ------------------------------------------------------------------------
maxRequests == 5        \* new RateLimiter(5, 60000)
timeWindow == 60000
safetyMargin == 1000    \* the "+ 1000" of waitTime
maxImagesPerSession == 50
maxAttempts == 20       \* waitForFileInput
probeInterval == 500    \* this.sleep(500) of waitForFileInput
defaultNumImages == 10  \* numImages = 10; parseInt(req.body.numImages) || 10

Callers == {"a", "b"}   \* callers sharing generator.rateLimiter

\* ------------------------------------------------------------------------
\* Extension: bounds and value sets
\* ------------------------------------------------------------------------
MaxRuns == 2            \* runs of handleScheduledUpdate started in one behaviour
MaxMessages == 1        \* popup sessions and scheduleUpdate messages in one behaviour
MaxStarts == 1          \* service-worker restarts in one behaviour
Runs == {"alarm", "force"}    \* one run in flight per trigger
Scheds == {"init", "msg"}     \* one scheduleNextUpdate in flight per origin
ImageLists == {<< >>, <<"g1", "g2">>, <<"g1", "g2", "g3">>}
Frequencies == {"daily", "weekly", "custom", "monthly"}
CustomIntervals == {3}
Responses == {"ok", "notOk", "none", "rejected"}
Null == -1              \* JavaScript null / undefined
AlarmName == "linkedin-profile-update"

VARIABLES
  now,          \* Date.now() of the backend process
  requests,     \* RateLimiter.requests
  wpc,          \* per caller: "idle" or "sleeping" (inside the setTimeout await)
  wnow,         \* per caller: the local const now of the suspended wait()
  wakeAt,       \* per caller: due time of its setTimeout
  admitted,     \* history: one record per wait() that has returned
  ncalls,       \* history: number of wait() calls issued
  store,        \* chrome.storage.sync
  alarms,       \* chrome.alarms: the set of registered alarms
  tab,          \* the LinkedIn tab chrome.tabs.query finds
  run,          \* per trigger: the handleScheduledUpdate call in flight
  sched,        \* per origin: the scheduleNextUpdate call in flight
  popup,        \* PopupController.settings and the message it has sent
  tnow,         \* Date.now() of the extension
  hist,         \* history: runs, messages and worker starts so far; idle: a
                \* scheduleNextUpdate that read isEnabled = false has completed
                \* and no settings with isEnabled = true were stored since it
                \* read them
  disk,         \* the backend's storage directory: whether it exists, its files
  clr,          \* the clearStoredImages call in flight, the last results of
                \* DELETE /images and GET /images
  gen,          \* the generateImages call in flight and the request behind it
  loc,          \* a generateImages call of the local variation strategy
  page,         \* the content script's updateProfilePicture in a page
  timer         \* chrome.alarms' clock: the time in minutes, when the alarm
                \* is due, and (history) when it fired

rlvars == <<now, requests, wpc, wnow, wakeAt, admitted, ncalls>>

extvars == <<store, alarms, tab, run, sched, popup, tnow, hist>>

bevars == <<disk, clr, gen, loc>>

vars == <<now, requests, wpc, wnow, wakeAt, admitted, ncalls,
          store, alarms, tab, run, sched, popup, tnow, hist,
          disk, clr, gen, loc, page, timer>>

\* ------------------------------------------------------------------------
\* RateLimiter
\* ------------------------------------------------------------------------
RECURSIVE MinOf(_)
\* Math.min(...requests)
MinOf(s) ==
  IF Len(s) = 1 THEN s[1]
  ELSE LET m == MinOf(Tail(s)) IN IF s[1] < m THEN s[1] ELSE m

\* this.requests.filter(time => now - time < this.timeWindow)
FilterWindow(reqs, t) == SelectSeq(reqs, LAMBDA time : t - time < timeWindow)

\* the limit test with an off-by-one comparison
AtLimit_Mut(reqs) == Len(reqs) > maxRequests

\* this.requests.length >= this.maxRequests
AtLimit(reqs) == Len(reqs) >= maxRequests

\* this.timeWindow - (now - oldestRequest) + 1000
WaitTime(reqs, t) == timeWindow - (t - MinOf(reqs)) + safetyMargin

\* the timestamp wait() records when it resumes after the setTimeout
ResumeStamp(callTime, resumeTime) == callTime

InitRateLimiter ==
  /\ now = 0
  /\ requests = << >>
  /\ wpc = [c \in Callers |-> "idle"]
  /\ wnow = [c \in Callers |-> 0]
  /\ wakeAt = [c \in Callers |-> 0]
  /\ admitted = << >>
  /\ ncalls = 0

\* wait() from its entry to its return, or to the await of the setTimeout
WaitCall(c) ==
  /\ wpc[c] = "idle"
  /\ ncalls < MaxCalls
  /\ ncalls' = ncalls + 1
  /\ LET kept == FilterWindow(requests, now) IN
       IF AtLimit(kept)
       THEN /\ requests' = kept
            /\ wpc' = [wpc EXCEPT ![c] = "sleeping"]
            /\ wnow' = [wnow EXCEPT ![c] = now]
            /\ wakeAt' = [wakeAt EXCEPT ![c] = now + WaitTime(kept, now)]
            /\ UNCHANGED admitted
       ELSE /\ requests' = Append(kept, now)
            /\ admitted' = Append(admitted,
                 [caller |-> c, call |-> now, done |-> now, suspended |-> FALSE])
            /\ UNCHANGED <<wpc, wnow, wakeAt>>
  /\ UNCHANGED now

\* the setTimeout fires (at its due time or later): push(now) and return
WaitResume(c) ==
  /\ wpc[c] = "sleeping"
  /\ now >= wakeAt[c]
  /\ requests' = Append(requests, ResumeStamp(wnow[c], now))
  /\ admitted' = Append(admitted,
       [caller |-> c, call |-> wnow[c], done |-> now, suspended |-> TRUE])
  /\ wpc' = [wpc EXCEPT ![c] = "idle"]
  /\ UNCHANGED <<now, wnow, wakeAt, ncalls>>

\* time passes in the backend process
Advance ==
  \E d \in Delays :
    /\ now + d <= MaxTime
    /\ now' = now + d
    /\ UNCHANGED <<requests, wpc, wnow, wakeAt, admitted, ncalls>>

\* ------------------------------------------------------------------------
\* Extension: settings, alarms, tabs
\* ------------------------------------------------------------------------
\* defaultSettings of initializeSettings (the keys the modelled code reads)
DefaultSettings ==
  [isEnabled |-> TRUE, frequency |-> "weekly", customInterval |-> 7,
   currentImageIndex |-> 0, lastUpdate |-> Null]

\* the switch with a case falling into the wrong unit
intervalMinutes_Mut(settings) ==
  CASE settings.frequency = "daily" -> 24 * 60
    [] settings.frequency = "weekly" -> 7 * 24 * 60
    [] settings.frequency = "custom" -> settings.customInterval * 60
    [] OTHER -> 7 * 24 * 60

\* the switch of scheduleNextUpdate
intervalMinutes(settings) ==
  CASE settings.frequency = "daily" -> 24 * 60
    [] settings.frequency = "weekly" -> 7 * 24 * 60
    [] settings.frequency = "custom" -> settings.customInterval * 24 * 60
    [] OTHER -> 7 * 24 * 60

\* chrome.alarms.create(name, {delayInMinutes: 1, periodInMinutes}): an alarm
\* of the same name is replaced
AlarmsCreate(set, name, period) ==
  {a \in set : a.name # name}
    \cup {[name |-> name, delayInMinutes |-> 1, periodInMinutes |-> period]}

\* chrome.alarms.clear(name)
AlarmsClear(set, name) == {a \in set : a.name # name}

NoTab == [open |-> FALSE, url |-> "none", status |-> "none"]

\* /linkedin\.com\/in\//i.test(url)
IsProfileUrl(url) == url = "profile"

\* images[settings.currentImageIndex % images.length], as a 1-based position
PickPosition(settings, images) ==
  (settings.currentImageIndex % Len(images)) + 1

\* the increment without the modulo
NextIndex_Mut(settings, images) == settings.currentImageIndex + 1

\* (settings.currentImageIndex + 1) % images.length
NextIndex(settings, images) ==
  (settings.currentImageIndex + 1) % Len(images)

\* the list mapped whatever data.success says
getStoredImages_Mut(answer, listed) ==
  IF answer = "throws" THEN << >> ELSE listed

\* getStoredImages: the list mapped from data.images, or [] when the backend
\* answers success:false or the fetch throws
getStoredImages(answer, listed) ==
  IF answer = "success" THEN listed ELSE << >>

\* LinkedInAutomation.updateProfilePicture: how the attempt ends on a page
\* with the given properties
updateProfilePicture(onProfile, editButton, fileInput, fetchOk) ==
  IF ~onProfile THEN "noop"
  ELSE IF ~editButton THEN "failed"
  ELSE IF ~fileInput THEN "failed"
  ELSE IF ~fetchOk THEN "failed"
  ELSE "done"

\* the acknowledgement the content script's listener gives for
\* updateProfilePicture: sendResponse({success: true}) right after the call
ListenerAck(started) == "ok"

IdleRun ==
  [pc |-> "idle", settings |-> DefaultSettings, images |-> << >>,
   resp |-> "unset", sent |-> "", wrote |-> Null, effects |-> {},
   outcome |-> "none", apply |-> "none"]

IdleSched ==
  [pc |-> "idle", settings |-> DefaultSettings, minutes |-> 0,
   last |-> "none"]

\* edited: which controls the user has used since the popup was opened (each
\* control is used at most once per opening)
NotEdited == [isEnabled |-> FALSE, frequency |-> FALSE, customInterval |-> FALSE]

ClosedPopup ==
  [open |-> FALSE, settings |-> DefaultSettings, msg |-> FALSE,
   edited |-> NotEdited]

\* ------------------------------------------------------------------------
\* handleScheduledUpdate
\* ------------------------------------------------------------------------
\* a run started by trigger r that excludes a run already in flight
StartRun_Mut(r) ==
  /\ \A q \in Runs : run[q].pc = "idle"
  /\ hist.runs < MaxRuns
  /\ run' = [run EXCEPT ![r] = [IdleRun EXCEPT !.pc = "get"]]
  /\ hist' = [hist EXCEPT !.runs = @ + 1]
  /\ UNCHANGED <<store, alarms, tab, sched, popup, tnow>>

\* a trigger starts handleScheduledUpdate, whatever else is in flight
StartRun(r) ==
  /\ run[r].pc = "idle"
  /\ hist.runs < MaxRuns
  /\ run' = [run EXCEPT ![r] = [IdleRun EXCEPT !.pc = "get"]]
  /\ hist' = [hist EXCEPT !.runs = @ + 1]
  /\ UNCHANGED <<store, alarms, tab, sched, popup, tnow>>

\* chrome.alarms.onAlarm listener of init
AlarmFired ==
  /\ \E a \in alarms : a.name = AlarmName
  /\ StartRun("alarm")

\* onMessage 'forceUpdate' -> forceUpdate()
ForceUpdate == StartRun("force")

\* a tick that goes on whatever the flag says
Disabled_Mut(settings) == FALSE

\* line 42: !settings.isEnabled
Disabled(settings) == ~settings.isEnabled

\* const settings = await chrome.storage.sync.get(); if (!settings.isEnabled) return
HSU_GetSettings(r) ==
  /\ run[r].pc = "get"
  /\ run' = [run EXCEPT ![r].settings = IF Disabled(store) THEN DefaultSettings ELSE store,
                        ![r].pc = IF Disabled(store) THEN "idle" ELSE "fetch",
                        ![r].outcome = IF Disabled(store) THEN "disabled" ELSE "none"]
  /\ UNCHANGED <<store, alarms, tab, sched, popup, tnow, hist>>

\* const images = await this.getStoredImages(); if (images.length === 0) return
HSU_GetStoredImages(r) ==
  /\ run[r].pc = "fetch"
  /\ \E answer \in {"success", "failure", "throws"}, listed \in ImageLists :
       LET images == getStoredImages(answer, listed) IN
         run' = [run EXCEPT ![r].images = images,
                            ![r].effects = @ \cup {"fetch"},
                            ![r].resp = answer,
                            ![r].settings = IF Len(images) = 0 THEN DefaultSettings ELSE @,
                            ![r].pc = IF Len(images) = 0 THEN "idle" ELSE "tabs",
                            ![r].outcome = IF Len(images) = 0 THEN "noImages" ELSE "none"]
  /\ UNCHANGED <<store, alarms, tab, sched, popup, tnow, hist>>

\* chrome.tabs.query, then chrome.tabs.create or chrome.tabs.update; with a
\* profile tab already open waitForTabLoad registers its listener at once
HSU_EnsureTab(r) ==
  /\ run[r].pc = "tabs"
  /\ IF ~tab.open
     THEN /\ tab' = [open |-> TRUE, url |-> "profile", status |-> "loading"]
          /\ run' = [run EXCEPT ![r].pc = "created",
                                ![r].effects = @ \cup {"tabCreate"}]
     ELSE IF ~IsProfileUrl(tab.url)
     THEN /\ tab' = [tab EXCEPT !.url = "profile", !.status = "loading"]
          /\ run' = [run EXCEPT ![r].pc = "created",
                                ![r].effects = @ \cup {"tabUpdate"}]
     ELSE /\ tab' = tab
          /\ run' = [run EXCEPT ![r].pc = "waitLoad"]
  /\ UNCHANGED <<store, alarms, sched, popup, tnow, hist>>

\* waitForTabLoad: chrome.tabs.onUpdated.addListener(listener)
HSU_WaitForTabLoad(r) ==
  /\ run[r].pc = "created"
  /\ run' = [run EXCEPT ![r].pc = "waitLoad"]
  /\ UNCHANGED <<store, alarms, tab, sched, popup, tnow, hist>>

\* the tab reports status 'complete': every registered listener resolves
TabComplete ==
  /\ tab.open
  /\ tab.status = "loading"
  /\ tab' = [tab EXCEPT !.status = "complete"]
  /\ run' = [r \in Runs |->
               IF run[r].pc = "waitLoad" THEN [run[r] EXCEPT !.pc = "send"]
               ELSE run[r]]
  /\ UNCHANGED <<store, alarms, sched, popup, tnow, hist>>

\* chrome.tabs.sendMessage(tab.id, {action: 'updateProfilePicture', ...}) and
\* the listener of LinkedInAutomation.init in the tab, when there is one
HSU_SendMessage(r) ==
  /\ run[r].pc = "send"
  /\ \E resp \in Responses :
       /\ resp = "ok" => tab.open
       /\ resp = "ok" => resp = ListenerAck(TRUE)
       /\ run' = [run EXCEPT
            ![r].sent = run[r].images[PickPosition(run[r].settings, run[r].images)],
            ![r].effects = @ \cup {"send"},
            ![r].resp = resp,
            ![r].apply = IF resp # "ok" THEN "none"
                         ELSE IF IsProfileUrl(tab.url) THEN "running"
                         ELSE updateProfilePicture(FALSE, FALSE, FALSE, FALSE),
            ![r].pc = "set"]
  /\ UNCHANGED <<store, alarms, tab, sched, popup, tnow, hist>>

\* the apply attempt started by the listener runs to its end in the page
ApplyEnds(r) ==
  /\ run[r].apply = "running"
  /\ \E editButton \in BOOLEAN, fileInput \in BOOLEAN, fetchOk \in BOOLEAN :
       run' = [run EXCEPT ![r].apply =
                 updateProfilePicture(TRUE, editButton, fileInput, fetchOk)]
  /\ UNCHANGED <<store, alarms, tab, sched, popup, tnow, hist>>

\* advance only on a positive acknowledgement
AdvancesAfter_Mut(resp) == resp = "ok"

\* lines 75-80: the warning does not return; the tick goes on to the storage
\* write after any response
AdvancesAfter(resp) == TRUE

\* lines 75-84: warn when not confirmed, then chrome.storage.sync.set
HSU_Advance(r) ==
  /\ run[r].pc = "set"
  /\ IF AdvancesAfter(run[r].resp)
     THEN /\ store' = [store EXCEPT
                 !.currentImageIndex = NextIndex(run[r].settings, run[r].images),
                 !.lastUpdate = tnow]
          /\ tnow' = tnow + 1
          /\ run' = [run EXCEPT ![r].pc = "idle",
                                ![r].settings = DefaultSettings,
                                ![r].images = << >>,
                                ![r].wrote = NextIndex(run[r].settings, run[r].images),
                                ![r].effects = @ \cup {"write"},
                                ![r].outcome = "advanced"]
     ELSE /\ run' = [run EXCEPT ![r].pc = "idle",
                                ![r].settings = DefaultSettings,
                                ![r].images = << >>,
                                ![r].outcome = "unconfirmed"]
          /\ UNCHANGED <<store, tnow>>
  /\ UNCHANGED <<alarms, tab, sched, popup, hist>>

\* ------------------------------------------------------------------------
\* init, initializeSettings, scheduleNextUpdate
\* ------------------------------------------------------------------------
\* the service worker is started again: the constructor calls init()
WorkerStart ==
  /\ sched["init"].pc = "idle"
  /\ hist.starts < MaxStarts
  /\ sched' = [sched EXCEPT !["init"] = [IdleSched EXCEPT !.pc = "initGet"]]
  /\ hist' = [hist EXCEPT !.starts = @ + 1]
  /\ UNCHANGED <<store, alarms, tab, run, popup, tnow>>

\* const result = await chrome.storage.sync.get(defaultSettings)
Init_GetSettings ==
  /\ sched["init"].pc = "initGet"
  /\ sched' = [sched EXCEPT !["init"].settings = store, !["init"].pc = "initSet"]
  /\ UNCHANGED <<store, alarms, tab, run, popup, tnow, hist>>

\* await chrome.storage.sync.set(result); then scheduleNextUpdate() is called
Init_SetSettings ==
  /\ sched["init"].pc = "initSet"
  /\ store' = sched["init"].settings
  /\ sched' = [sched EXCEPT !["init"].pc = "get"]
  /\ hist' = [hist EXCEPT !.idle = @ /\ ~store'.isEnabled]
  /\ UNCHANGED <<alarms, tab, run, popup, tnow>>

\* const settings = await chrome.storage.sync.get()
SNU_GetSettings(s) ==
  /\ sched[s].pc = "get"
  /\ sched' = [sched EXCEPT
       ![s].settings = store,
       ![s].minutes = IF store.isEnabled THEN intervalMinutes(store) ELSE 0,
       ![s].pc = IF store.isEnabled THEN "clear" ELSE "clearOff"]
  /\ UNCHANGED <<store, alarms, tab, run, popup, tnow, hist>>

\* if (!settings.isEnabled) { await chrome.alarms.clear(...); return; }
SNU_ClearDisabled(s) ==
  /\ sched[s].pc = "clearOff"
  /\ alarms' = AlarmsClear(alarms, AlarmName)
  /\ sched' = [sched EXCEPT ![s].pc = "idle", ![s].last = "cleared",
                            ![s].settings = DefaultSettings]
  /\ hist' = [hist EXCEPT !.idle = ~store.isEnabled]
  /\ UNCHANGED <<store, tab, run, popup, tnow>>

\* the alarm set after "Clear existing alarm"
ClearExisting(set) == AlarmsClear(set, AlarmName)

\* await chrome.alarms.clear('linkedin-profile-update')
SNU_Clear(s) ==
  /\ sched[s].pc = "clear"
  /\ alarms' = ClearExisting(alarms)
  /\ sched' = [sched EXCEPT ![s].pc = "create"]
  /\ UNCHANGED <<store, tab, run, popup, tnow, hist>>

\* await chrome.alarms.create('linkedin-profile-update', {...})
SNU_Create(s) ==
  /\ sched[s].pc = "create"
  /\ alarms' = AlarmsCreate(alarms, AlarmName, sched[s].minutes)
  /\ sched' = [sched EXCEPT ![s].pc = "idle", ![s].last = "created",
                            ![s].settings = DefaultSettings, ![s].minutes = 0]
  /\ UNCHANGED <<store, tab, run, popup, tnow, hist>>

\* onMessage 'scheduleUpdate' -> scheduleNextUpdate()
OnScheduleUpdate ==
  /\ sched["msg"].pc = "idle"
  /\ hist.msgs < MaxMessages
  /\ sched' = [sched EXCEPT !["msg"] = [IdleSched EXCEPT !.pc = "get"]]
  /\ hist' = [hist EXCEPT !.msgs = @ + 1]
  /\ UNCHANGED <<store, alarms, tab, run, popup, tnow>>

\* ------------------------------------------------------------------------
\* Popup: loadSettings, the edit listeners, saveSettings; onMessage
\* 'updateSettings' in the service worker
\* ------------------------------------------------------------------------
\* PopupController.loadSettings
PopupLoadSettings ==
  /\ ~popup.open
  /\ ~popup.msg
  /\ hist.msgs < MaxMessages
  /\ popup' = [open |-> TRUE, settings |-> store, msg |-> FALSE,
               edited |-> NotEdited]
  /\ hist' = [hist EXCEPT !.msgs = @ + 1]
  /\ UNCHANGED <<store, alarms, tab, run, sched, tnow>>

\* the toggle, frequency and custom-days listeners of setupEventListeners
PopupToggleEnabled ==
  /\ popup.open
  /\ ~popup.edited.isEnabled
  /\ popup' = [popup EXCEPT !.settings.isEnabled = ~@, !.edited.isEnabled = TRUE]
  /\ UNCHANGED <<store, alarms, tab, run, sched, tnow, hist>>

PopupSetFrequency ==
  /\ popup.open
  /\ ~popup.edited.frequency
  /\ \E f \in Frequencies :
       /\ f # popup.settings.frequency
       /\ popup' = [popup EXCEPT !.settings.frequency = f, !.edited.frequency = TRUE]
  /\ UNCHANGED <<store, alarms, tab, run, sched, tnow, hist>>

PopupSetCustomDays ==
  /\ popup.open
  /\ ~popup.edited.customInterval
  /\ \E d \in CustomIntervals :
       /\ d # popup.settings.customInterval
       /\ popup' = [popup EXCEPT !.settings.customInterval = d,
                                 !.edited.customInterval = TRUE]
  /\ UNCHANGED <<store, alarms, tab, run, sched, tnow, hist>>

\* PopupController.saveSettings: chrome.storage.sync.set(this.settings), then
\* sendMessage({action: 'updateSettings', settings: this.settings})
PopupSaveSettings ==
  /\ popup.open
  /\ store' = popup.settings
  /\ popup' = [popup EXCEPT !.open = FALSE, !.msg = TRUE, !.edited = NotEdited]
  /\ hist' = [hist EXCEPT !.idle = @ /\ ~store'.isEnabled]
  /\ UNCHANGED <<alarms, tab, run, sched, tnow>>

\* chrome.storage.sync.set(request.settings).then(() => scheduleNextUpdate())
OnUpdateSettings ==
  /\ popup.msg
  /\ sched["msg"].pc = "idle"
  /\ store' = popup.settings
  /\ popup' = [ClosedPopup EXCEPT !.msg = FALSE]
  /\ sched' = [sched EXCEPT !["msg"] = [IdleSched EXCEPT !.pc = "get"]]
  /\ hist' = [hist EXCEPT !.idle = @ /\ ~store'.isEnabled]
  /\ UNCHANGED <<alarms, tab, run, tnow>>

\* ------------------------------------------------------------------------
\* Environment of the extension
\* ------------------------------------------------------------------------
\* between two ticks the user opens LinkedIn in a tab, or closes the tab
UserTab ==
  /\ \A r \in Runs : run[r].pc \in {"idle", "get", "fetch"}
  /\ \/ /\ ~tab.open
        /\ \E u \in {"profile", "feed"} :
             tab' = [open |-> TRUE, url |-> u, status |-> "loading"]
     \/ /\ tab.open
        /\ tab' = NoTab
  /\ UNCHANGED <<store, alarms, run, sched, popup, tnow, hist>>

\* ------------------------------------------------------------------------
\* Extension: when the alarm fires
\* ------------------------------------------------------------------------
\* now: minutes since the service worker was installed; due: the
\* scheduledTime of the registered alarm (Null: none); ticks (history): the
\* times at which onAlarm ran
IdleTimer == [now |-> 0, due |-> Null, ticks |-> << >>]

\* the alarm chrome.alarms holds under the name of the extension's alarm
TheAlarm(set) == CHOOSE a \in set : a.name = AlarmName

\* scheduleNextUpdate's chrome.alarms.clear: the alarm is no longer due
AL_Clear(s) ==
  /\ SNU_Clear(s)
  /\ timer' = [timer EXCEPT !.due = Null]

\* scheduleNextUpdate's chrome.alarms.create: the new alarm is due
\* delayInMinutes from now, whenever the one before it last fired
AL_Create(s) ==
  /\ SNU_Create(s)
  /\ timer' = [timer EXCEPT !.due = timer.now + TheAlarm(alarms').delayInMinutes]

\* time passes until the alarm is due
AL_TimePasses ==
  /\ timer.due # Null
  /\ timer.now < timer.due
  /\ timer' = [timer EXCEPT !.now = timer.due]
  /\ UNCHANGED extvars

\* the alarm is due: onAlarm runs handleScheduledUpdate, and the alarm is
\* due again periodInMinutes later
AL_Fire ==
  /\ timer.due # Null
  /\ timer.now >= timer.due
  /\ AlarmFired
  /\ timer' = [timer EXCEPT !.due = timer.due + TheAlarm(alarms).periodInMinutes,
                            !.ticks = Append(@, timer.now)]

\* ------------------------------------------------------------------------
\* Backend: the storage directory, getStoredImages, clearStoredImages
\* ------------------------------------------------------------------------
\* a file of the storage directory: generated_<t>_<n>.<ext>, metadata.json,
\* or a file that was there before
File(kind, t, n, ext) == [kind |-> kind, t |-> t, n |-> n, ext |-> ext]

MetadataFile == File("metadata", 0, 0, "json")

EmptyDisk == [dir |-> TRUE, files |-> {}]

\* what the directory may hold when the server starts
OldFiles ==
  {File("old", 0, 1, "png"), File("old", 0, 2, "jpg"), File("old", 0, 3, "jpeg"),
   File("old", 0, 4, "webp"), MetadataFile}

NoFile == File("none", 0, 0, "none")

\* what a generation batch writes while the store is being read or cleared
NewFiles == {File("generated", 0, 1, "png")}

\* the :filename of a request: a file a batch writes, metadata.json, or a
\* name that is never written
ServeNames == NewFiles \cup {MetadataFile, File("generated", 0, 2, "png")}

\* getStoredImages: the files that end with .png, .jpg or .jpeg; [] when
\* readdir throws
Generator_getStoredImages(d) ==
  IF d.dir THEN {f \in d.files : f.ext \in {"png", "jpg", "jpeg"}} ELSE {}

\* the filter without .jpeg
imageFiles_Mut(files) == {f \in files : f.ext \in {"png", "jpg"}}

\* clearStoredImages: const imageFiles = files.filter(...)
imageFiles(files) == {f \in files : f.ext \in {"png", "jpg", "jpeg"}}

\* the number of directory entries instead of the number of image files
ClearedCount_Mut(snapshot, files) == Cardinality(files)

\* clearStoredImages: count: imageFiles.length
ClearedCount(snapshot, files) == Cardinality(snapshot)

\* DELETE /images: 200 when result.success, 500 otherwise
DeleteStatus(result) == IF result.success THEN 200 ELSE 500

NoResult == [success |-> FALSE, count |-> Null, status |-> 0]

NoListing == [success |-> FALSE, count |-> Null, images |-> {}, status |-> 0]

\* pc, todo, total, deleted: the clearStoredImages call in flight; lpc: the
\* getStoredImages call of GET /images in flight; result, listed: the last
\* responses. History: before (the directory when the call in flight
\* started), wrote (a file was written since the call in flight started),
\* clean (the last clearStoredImages returned success and nothing was
\* written since it started), second (the call in flight started clean),
\* prev (the result of the call before), lafter (the GET in flight started
\* clean). spc, sname, sstatus: the GET /images/:filename request in flight
\* and its response; crashed: the read stream failed with no 'error'
\* listener, which ends the process; sat: the directory when the request
\* ended
IdleClear ==
  [pc |-> "idle", todo |-> {}, total |-> 0, deleted |-> 0, result |-> NoResult,
   lpc |-> "idle", listed |-> NoListing,
   before |-> {}, wrote |-> FALSE, clean |-> FALSE, second |-> FALSE,
   prev |-> NoResult, lafter |-> FALSE,
   spc |-> "idle", sname |-> NoFile, sstatus |-> 0, crashed |-> FALSE,
   sat |-> {}]

\* DELETE /images arrives: clearStoredImages() runs to its await of readdir
CSI_Start ==
  /\ clr.pc = "idle"
  /\ clr' = [clr EXCEPT !.pc = "readdir", !.todo = {}, !.total = 0,
                        !.deleted = 0, !.result = NoResult,
                        !.before = disk.files, !.wrote = FALSE,
                        !.second = clr.clean, !.prev = clr.result]
  /\ UNCHANGED disk

\* how a clearStoredImages call ends: its result and the response
CSI_Return(c, success, count) ==
  [c EXCEPT !.pc = "idle", !.todo = {},
            !.result = [success |-> success,
                        count |-> IF success THEN count ELSE Null,
                        status |-> DeleteStatus([success |-> success])],
            !.clean = success /\ ~c.wrote]

\* readdir resolves or rejects; with no image file the loop is empty and
\* the call returns
CSI_Readdir ==
  /\ clr.pc = "readdir"
  /\ IF ~disk.dir
     THEN clr' = CSI_Return(clr, FALSE, 0)
     ELSE LET snapshot == imageFiles(disk.files)
              count == ClearedCount(snapshot, disk.files) IN
          IF snapshot = {}
          THEN clr' = CSI_Return([clr EXCEPT !.total = count], TRUE, count)
          ELSE clr' = [clr EXCEPT !.pc = "unlink", !.todo = snapshot,
                                  !.total = count]
  /\ UNCHANGED disk

\* await fs.unlink(...) of the next file: it is removed, or unlink rejects
\* (the file is gone, or may not be removed) and the call returns
\* success:false; after the last file the call returns
CSI_Unlink ==
  /\ clr.pc = "unlink"
  /\ \E f \in clr.todo, permitted \in BOOLEAN :
       IF f \in disk.files /\ permitted
       THEN /\ disk' = [disk EXCEPT !.files = @ \ {f}]
            /\ LET c == [clr EXCEPT !.todo = @ \ {f}, !.deleted = @ + 1] IN
                 clr' = IF c.todo = {} THEN CSI_Return(c, TRUE, c.total) ELSE c
       ELSE /\ clr' = CSI_Return(clr, FALSE, 0)
            /\ UNCHANGED disk

\* GET /images arrives: getStoredImages() runs to its await of readdir
GSI_Start ==
  /\ clr.lpc = "idle"
  /\ clr' = [clr EXCEPT !.lpc = "readdir", !.listed = NoListing,
                        !.lafter = clr.clean]
  /\ UNCHANGED disk

\* readdir resolves or rejects: res.json({success: true, count, images})
GSI_Readdir ==
  /\ clr.lpc = "readdir"
  /\ LET images == Generator_getStoredImages(disk) IN
       clr' = [clr EXCEPT !.lpc = "idle",
                 !.listed = [success |-> TRUE, count |-> Cardinality(images),
                             images |-> images, status |-> 200]]
  /\ UNCHANGED disk

\* a generation batch writes a file into the directory
StoreWrite ==
  /\ disk.dir
  /\ \E f \in NewFiles \cup {MetadataFile} :
       /\ f \notin disk.files
       /\ disk' = [disk EXCEPT !.files = @ \cup {f}]
  /\ clr' = [clr EXCEPT !.wrote = TRUE, !.clean = FALSE, !.second = FALSE,
                        !.lafter = FALSE]

\* GET /images/:filename arrives: the handler runs to its await of fs.access
SRV_Start(f) ==
  /\ clr.spc \in {"idle", "done"}
  /\ ~clr.crashed
  /\ clr' = [clr EXCEPT !.spc = "access", !.sname = f, !.sstatus = 0, !.sat = {}]
  /\ UNCHANGED disk

\* fs.access(filepath) resolves for any existing entry of the directory,
\* whatever its extension, and the read stream is created; it rejects for
\* a missing one: 404
SRV_Access ==
  /\ clr.spc = "access"
  /\ IF disk.dir /\ clr.sname \in disk.files
     THEN clr' = [clr EXCEPT !.spc = "open"]
     ELSE clr' = [clr EXCEPT !.spc = "done", !.sstatus = 404,
                             !.sat = disk.files]
  /\ UNCHANGED disk

\* the stream opens: Content-Type image/png and the bytes are piped to the
\* response; when the file was removed in between the stream emits 'error',
\* nothing listens for it, and the process ends without a response
SRV_Open ==
  /\ clr.spc = "open"
  /\ IF clr.sname \in disk.files
     THEN clr' = [clr EXCEPT !.spc = "done", !.sstatus = 200,
                             !.sat = disk.files]
     ELSE clr' = [clr EXCEPT !.spc = "done", !.sstatus = 0, !.crashed = TRUE,
                             !.sat = disk.files]
  /\ UNCHANGED disk

\* ------------------------------------------------------------------------
\* Backend: generateImages and the routes that call it
\* ------------------------------------------------------------------------
Routes == {"direct", "/generate-images", "/generate-images-base64"}

\* numImages as the caller gives it (an integer, or the decimal string of one)
RawCounts == {-1, 0, 1, 2, 3, 6, 51}

\* POST /generate-images: parseInt(req.body.numImages) || 10, on the decimal
\* string of an integer: 0 is falsy and becomes the default
ParseIntOrDefault(raw) == IF raw = 0 THEN defaultNumImages ELSE raw

\* the numImages a route passes on; a direct caller passes its own
RouteNumImages(route, raw) ==
  IF route = "/generate-images" THEN ParseIntOrDefault(raw) ELSE raw

\* the routes' check: numImages < 1 || numImages > 50
RouteRejects(n) == n < 1 \/ n > 50

\* generateImages: the two throws before the first await
InvalidCount(n) == n < 1 \/ n > 50 \/ n > maxImagesPerSession

\* result.success ? res.json(...) : res.status(500)
GenerateStatus(route, success) ==
  IF route = "direct" THEN 0 ELSE IF success THEN 200 ELSE 500

NoGenResult == [success |-> FALSE, count |-> Null, images |-> << >>, error |-> FALSE]

\* count, i, images (generatedImages), name (the filename of the write in
\* flight): locals of the call; route, raw, photo: the request; result,
\* status: what the call returned and the response. History: invoked
\* (generateImages was called), looped (the loop was entered), before (the
\* directory when the request arrived), written (files this call wrote),
\* items (one record per finished item: its index, the remote and fallback
\* attempts made for it, whether the remote attempt failed, the file it
\* left), remote, rfailed, fallbacks (the same for the item in progress),
\* apiCalls, faults, metaSaved. POST /generate-from-base: folder (the
\* extensions of the files in the base-photo folder), message (the error
\* of its 400 response)
IdleGen ==
  [pc |-> "idle", local |-> FALSE, route |-> "none", raw |-> 0, photo |-> FALSE,
   count |-> 0, i |-> 0, images |-> << >>, name |-> NoFile,
   result |-> NoGenResult, status |-> 0,
   invoked |-> FALSE, looped |-> FALSE, before |-> EmptyDisk, written |-> {},
   items |-> << >>, remote |-> 0, rfailed |-> FALSE, fallbacks |-> 0,
   apiCalls |-> 0,
   faults |-> 0, metaSaved |-> FALSE, folder |-> {}, message |-> "none"]

\* the catch of generateImages: return {success: false, error}
GI_Fail(g) ==
  [g EXCEPT !.pc = "done",
            !.result = [NoGenResult EXCEPT !.error = TRUE],
            !.status = GenerateStatus(g.route, FALSE)]

\* a request arrives at a route, or generateImages is called directly; the
\* routes answer 400 without a base photo or with numImages out of range,
\* else write the photo to a temp file and call generateImages, which throws
\* on an invalid count before its first await
GEN_Request(c) ==
  /\ gen[c].pc = "idle"
  /\ \E route \in Routes, raw \in RawCounts, photo \in BOOLEAN :
       LET n == RouteNumImages(route, raw)
           g == [gen[c] EXCEPT !.route = route, !.raw = raw, !.photo = photo,
                               !.before = disk]
       IN
         gen' = [gen EXCEPT ![c] =
           IF route # "direct" /\ (~photo \/ RouteRejects(n))
           THEN [g EXCEPT !.pc = "done", !.status = 400]
           ELSE IF InvalidCount(n)
           THEN GI_Fail([g EXCEPT !.invoked = TRUE, !.count = n])
           ELSE [g EXCEPT !.invoked = TRUE, !.count = n, !.pc = "ensure"]]
  /\ UNCHANGED <<disk, clr, loc>>

\* await this.ensureStorageDirectory(): access, mkdir when it is missing
GI_Ensure(c) ==
  /\ gen[c].pc = "ensure"
  /\ disk' = [disk EXCEPT !.dir = TRUE]
  /\ gen' = [gen EXCEPT ![c].pc = "read"]
  /\ UNCHANGED <<clr, loc>>

\* await fs.readFile(basePhotoPath): a route has just written the file; a
\* direct caller's path may name no file
GI_ReadFile(c) ==
  /\ gen[c].pc = "read"
  /\ gen' = [gen EXCEPT ![c] =
       IF ~gen[c].photo THEN GI_Fail(gen[c])
       ELSE IF gen[c].local THEN [gen[c] EXCEPT !.pc = "extract"]
       ELSE [gen[c] EXCEPT !.pc = "loop", !.looped = TRUE]]
  /\ UNCHANGED <<disk, clr, loc>>

\* local mode: const subjectPng = await this.extractSubject(...), outside
\* the per-item try
GI_Extract(c) ==
  /\ gen[c].pc = "extract"
  /\ \E ok \in BOOLEAN :
       /\ ~ok => gen[c].faults < MaxFaults
       /\ gen' = [gen EXCEPT ![c] =
            IF ok THEN [gen[c] EXCEPT !.pc = "local", !.looped = TRUE]
            ELSE GI_Fail([gen[c] EXCEPT !.faults = @ + 1])]
  /\ UNCHANGED <<disk, clr, loc>>

\* the item in progress is over: i++, and the loop goes on or ends
NextItem(g, file) ==
  LET h == [g EXCEPT
              !.items = Append(@, [index |-> g.i, remote |-> g.remote,
                                   rfailed |-> g.rfailed,
                                   fallback |-> g.fallbacks, file |-> file]),
              !.images = IF file = NoFile THEN @ ELSE Append(@, file),
              !.written = IF file = NoFile THEN @ ELSE @ \cup {file},
              !.remote = 0, !.rfailed = FALSE, !.fallbacks = 0,
              !.name = NoFile,
              !.i = g.i + 1]
  IN [h EXCEPT !.pc = IF h.i < h.count
                      THEN (IF h.local THEN "local" ELSE "loop")
                      ELSE "meta"]

\* local mode, one item: background, composite, writeFile, push; the catch
\* logs and goes on
GI_Local(c) ==
  /\ gen[c].pc = "local"
  /\ \E ok \in BOOLEAN :
       /\ ~ok => gen[c].faults < MaxFaults
       /\ LET file == File("generated", now, gen[c].i + 1, "png") IN
            IF ok
            THEN /\ disk' = [disk EXCEPT !.files = @ \cup {file}]
                 /\ gen' = [gen EXCEPT ![c] = NextItem(gen[c], file)]
            ELSE /\ gen' = [gen EXCEPT ![c] =
                      NextItem([gen[c] EXCEPT !.faults = @ + 1], NoFile)]
                 /\ UNCHANGED disk
  /\ UNCHANGED <<clr, loc>>

\* the loop head of the API path: await this.rateLimiter.wait()
GI_Wait(c) ==
  /\ gen[c].pc = "loop"
  /\ WaitCall(c)
  /\ gen' = [gen EXCEPT ![c].pc = "api"]
  /\ UNCHANGED <<disk, clr, loc>>

\* leaving the loop instead of falling back
AfterRemoteFailure_Mut(g) == [g EXCEPT !.pc = "meta"]

\* catch (error): the local fallback is tried
AfterRemoteFailure(g) == [g EXCEPT !.pc = "fallback"]

\* wait() has returned: await this.generateSingleImage(...) resolves, the
\* filename is made and writeFile is called; or it rejects
GI_Api(c) ==
  /\ gen[c].pc = "api"
  /\ wpc[c] = "idle"
  /\ \E ok \in BOOLEAN :
       /\ ~ok => gen[c].faults < MaxFaults
       /\ LET g == [gen[c] EXCEPT !.apiCalls = @ + 1, !.remote = @ + 1] IN
            gen' = [gen EXCEPT ![c] =
              IF ok
              THEN [g EXCEPT !.pc = "write",
                             !.name = File("generated", now, g.i + 1, "png")]
              ELSE AfterRemoteFailure([g EXCEPT !.faults = @ + 1,
                                                !.rfailed = TRUE])]
  /\ UNCHANGED <<disk, clr, loc>>

\* await fs.writeFile(filepath, imageData) resolves, push; or it rejects
GI_Write(c) ==
  /\ gen[c].pc = "write"
  /\ \E ok \in BOOLEAN :
       /\ ~ok => gen[c].faults < MaxFaults
       /\ IF ok
          THEN /\ disk' = [disk EXCEPT !.files = @ \cup {gen[c].name}]
               /\ gen' = [gen EXCEPT ![c] = NextItem(gen[c], gen[c].name)]
          ELSE /\ gen' = [gen EXCEPT ![c] =
                    AfterRemoteFailure([gen[c] EXCEPT !.faults = @ + 1,
                                                      !.rfailed = TRUE,
                                                      !.name = NoFile])]
               /\ UNCHANGED disk
  /\ UNCHANGED <<clr, loc>>

\* the fallback: extractSubject, background, composite, writeFile, push; the
\* inner catch logs and goes on
GI_Fallback(c) ==
  /\ gen[c].pc = "fallback"
  /\ \E ok \in BOOLEAN :
       /\ ~ok => gen[c].faults < MaxFaults
       /\ LET g == [gen[c] EXCEPT !.fallbacks = @ + 1]
              file == File("generated", now, g.i + 1, "png") IN
            IF ok
            THEN /\ disk' = [disk EXCEPT !.files = @ \cup {file}]
                 /\ gen' = [gen EXCEPT ![c] = NextItem(g, file)]
            ELSE /\ gen' = [gen EXCEPT ![c] =
                      NextItem([g EXCEPT !.faults = @ + 1], NoFile)]
                 /\ UNCHANGED disk
  /\ UNCHANGED <<clr, loc>>

\* await this.saveMetadata(generatedImages); return {success: true, images,
\* count}; or writeFile rejects and the outer catch returns success: false
GI_SaveMetadata(c) ==
  /\ gen[c].pc = "meta"
  /\ \E ok \in BOOLEAN :
       /\ ~ok => gen[c].faults < MaxFaults
       /\ IF ok
          THEN /\ disk' = [disk EXCEPT !.files = @ \cup {MetadataFile}]
               /\ gen' = [gen EXCEPT ![c] =
                    [gen[c] EXCEPT
                       !.pc = "done", !.metaSaved = TRUE,
                       !.written = @ \cup {MetadataFile},
                       !.result = [success |-> TRUE, count |-> Len(gen[c].images),
                                   images |-> gen[c].images, error |-> FALSE],
                       !.status = GenerateStatus(gen[c].route, TRUE)]]
          ELSE /\ gen' = [gen EXCEPT ![c] =
                    GI_Fail([gen[c] EXCEPT !.faults = @ + 1])]
               /\ UNCHANGED disk
  /\ UNCHANGED <<clr, loc>>

\* ------------------------------------------------------------------------
\* Backend: POST /generate-from-base
\* ------------------------------------------------------------------------
\* the extensions of the files the base-photo folder may hold
BaseFolders == SUBSET {".webp", ".PNG", ".txt"}

\* numImages as the extension sends it to /generate-from-base
BaseRawCounts == {0, 2, 3}

\* path.extname(f).toLowerCase(), on the extensions of BaseFolders
ToLowerCase(ext) == IF ext = ".PNG" THEN ".png" ELSE ext

\* Math.max(1, Math.min(50, parseInt(numImages)))
ClampCount(raw) ==
  LET low == IF raw < 50 THEN raw ELSE 50 IN IF low > 1 THEN low ELSE 1

\* any file of the folder taken for the base photo
HasBasePhoto_Mut(folder) == folder # {}

\* files.find(f => allowed.includes(path.extname(f).toLowerCase()))
HasBasePhoto(folder) ==
  \E ext \in folder : ToLowerCase(ext) \in {".png", ".jpg", ".jpeg", ".webp"}

\* POST /generate-from-base arrives: the handler runs to its await of
\* ensureDirectories
GFB_Request(c) ==
  /\ gen[c].pc = "idle"
  /\ \E raw \in BaseRawCounts, folder \in BaseFolders :
       gen' = [gen EXCEPT ![c] =
                 [gen[c] EXCEPT !.pc = "baseDirs", !.route = "/generate-from-base",
                                !.raw = raw, !.folder = folder, !.before = disk]]
  /\ UNCHANGED <<disk, clr, loc>>

\* ensureDirectories: mkdir of the base folder and of the storage path;
\* then readdir of the base folder is awaited
GFB_EnsureDirectories(c) ==
  /\ gen[c].pc = "baseDirs"
  /\ disk' = [disk EXCEPT !.dir = TRUE]
  /\ gen' = [gen EXCEPT ![c].pc = "baseRead"]
  /\ UNCHANGED <<clr, loc>>

\* readdir resolves: without a base photo the handler answers 400, else it
\* calls generateImages(basePath, count), which runs to its first await
GFB_FindBase(c) ==
  /\ gen[c].pc = "baseRead"
  /\ LET n == ClampCount(gen[c].raw) IN
       gen' = [gen EXCEPT ![c] =
         IF ~HasBasePhoto(gen[c].folder)
         THEN [gen[c] EXCEPT !.pc = "done", !.status = 400,
                             !.message = "No base photo found"]
         ELSE IF InvalidCount(n)
         THEN GI_Fail([gen[c] EXCEPT !.invoked = TRUE, !.count = n, !.photo = TRUE])
         ELSE [gen[c] EXCEPT !.invoked = TRUE, !.count = n, !.photo = TRUE,
                             !.pc = "ensure"]]
  /\ UNCHANGED <<disk, clr, loc>>

\* the setTimeout of a suspended wait() comes due
TimerElapses ==
  /\ \E c \in Callers :
       /\ wpc[c] = "sleeping"
       /\ now < wakeAt[c]
       /\ wakeAt[c] <= MaxTime
       /\ now' = wakeAt[c]
  /\ UNCHANGED <<requests, wpc, wnow, wakeAt, admitted, ncalls>>

\* ------------------------------------------------------------------------
\* Backend: the local variation strategy (generateSingleImageLocal)
\* ------------------------------------------------------------------------
\* the parameters of modulate and blur for item i: saturation and
\* brightness in hundredths, hue in degrees, blur in tenths
TransformParams(i) ==
  [saturation |-> 100 + (i % 5) * 6,
   brightness |-> 100 + (i % 3) * 3,
   hue |-> (i % 6) * 20,
   blur |-> IF i % 4 = 0 THEN 3 ELSE 0]

\* count, i, out (generatedImages, each with the parameters that made it):
\* locals of the call; skips: items that failed
IdleLocal ==
  [pc |-> "idle", count |-> 0, i |-> 0, out |-> << >>, skips |-> 0,
   result |-> NoGenResult]

\* generateImages in local mode is called with a valid count and runs to
\* the first item
LOC_Start ==
  /\ loc.pc = "idle"
  /\ \E n \in 1..maxImagesPerSession :
       loc' = [IdleLocal EXCEPT !.pc = "item", !.count = n]
  /\ UNCHANGED <<disk, clr, gen>>

\* one item: generateSingleImageLocal(basePhotoBuffer, i), writeFile, push;
\* the catch logs and goes on
LOC_Item ==
  /\ loc.pc = "item"
  /\ \E ok \in BOOLEAN :
       /\ ~ok => loc.skips < MaxSkips
       /\ LET file == File("generated", now, loc.i + 1, "png")
              l == [loc EXCEPT
                      !.i = @ + 1,
                      !.out = IF ok
                              THEN Append(@, [index |-> loc.i, file |-> file,
                                              params |-> TransformParams(loc.i)])
                              ELSE @,
                      !.skips = IF ok THEN @ ELSE @ + 1]
          IN /\ loc' = [l EXCEPT !.pc = IF l.i < l.count THEN "item" ELSE "meta"]
             /\ disk' = IF ok THEN [disk EXCEPT !.files = @ \cup {file}] ELSE disk
  /\ UNCHANGED <<clr, gen>>

\* await this.saveMetadata(generatedImages); return {success: true, ...}
LOC_Return ==
  /\ loc.pc = "meta"
  /\ disk' = [disk EXCEPT !.files = @ \cup {MetadataFile}]
  /\ loc' = [loc EXCEPT !.pc = "done",
                !.result = [success |-> TRUE, count |-> Len(loc.out),
                            images |-> [k \in 1..Len(loc.out) |-> loc.out[k].file],
                            error |-> FALSE]]
  /\ UNCHANGED <<clr, gen>>

\* ------------------------------------------------------------------------
\* Content script: updateProfilePicture in the page
\* ------------------------------------------------------------------------
\* a button-like element of the page: the selector of the list it matches
\* (0: none), whether it has a layout box (offsetParent !== null), whether
\* its text holds 'edit photo', 'change photo', 'edit picture' or 'change
\* picture', whether it lies in the container of the profile photo
Elements == [sel : 0..4, visible : BOOLEAN, text : BOOLEAN, near : BOOLEAN]

\* a page: its button-like elements in document order, and whether it has
\* a profile photo image
Doms ==
  {d \in [photo : BOOLEAN,
          els : UNION {[1..n -> Elements] : n \in 0..MaxDom}] :
     d.photo \/ \A p \in 1..Len(d.els) : ~d.els[p].near}

EmptyDom == [photo |-> FALSE, els |-> << >>]

\* document.querySelector / Array.find: the position of the first element
\* that is one of those selected, 0 (null) when there is none
QuerySelector(els, selected) ==
  IF \E p \in 1..Len(els) : els[p] \in selected
  THEN CHOOSE p \in 1..Len(els) :
         els[p] \in selected /\ \A q \in 1..(p - 1) : els[q] \notin selected
  ELSE 0

RECURSIVE BySelectors(_, _)
\* for (const selector of selectors): the first element the selector
\* matches is returned when it has a layout box
BySelectors(dom, k) ==
  IF k > 4 THEN 0
  ELSE LET element == QuerySelector(dom.els, {e \in Elements : e.sel = k}) IN
         IF element # 0 /\ dom.els[element].visible THEN element
         ELSE BySelectors(dom, k + 1)

\* the button near the profile picture whose text matches
NearPhoto(dom) ==
  IF dom.photo THEN QuerySelector(dom.els, {e \in Elements : e.near /\ e.text}) ELSE 0

\* findButtonByText
findButtonByText(dom) == QuerySelector(dom.els, {e \in Elements : e.text})

NoElement == [pos |-> 0, by |-> "none", visible |-> FALSE]

\* the text scan tried before the search near the photo
findProfilePictureEditButton_Mut(dom) ==
  LET a == BySelectors(dom, 1)
      b == NearPhoto(dom)
      c == findButtonByText(dom) IN
    IF a # 0 THEN [pos |-> a, by |-> "a", visible |-> dom.els[a].visible]
    ELSE IF c # 0 THEN [pos |-> c, by |-> "c", visible |-> dom.els[c].visible]
    ELSE IF b # 0 THEN [pos |-> b, by |-> "b", visible |-> dom.els[b].visible]
    ELSE NoElement

\* findProfilePictureEditButton: the element returned and the strategy
\* that found it
findProfilePictureEditButton(dom) ==
  LET a == BySelectors(dom, 1)
      b == NearPhoto(dom)
      c == findButtonByText(dom) IN
    IF a # 0 THEN [pos |-> a, by |-> "a", visible |-> dom.els[a].visible]
    ELSE IF b # 0 THEN [pos |-> b, by |-> "b", visible |-> dom.els[b].visible]
    ELSE IF c # 0 THEN [pos |-> c, by |-> "c", visible |-> dom.els[c].visible]
    ELSE NoElement

\* a guard that lets every page through
GuardPasses_Mut(href) == TRUE

\* line 23: /linkedin\.com\/in\//i.test(location.href)
GuardPasses(href) == href = "profile"

\* one probe more than maxAttempts
LoopGoesOn_Mut(attempts) == attempts <= maxAttempts

\* while (attempts < maxAttempts)
LoopGoesOn(attempts) == attempts < maxAttempts

\* a file made of whatever the server answered
FileCreated_Mut(fetched) == fetched \in {"ok", "notOk"}

\* createFileFromPath: a File when fetch resolved with res.ok and the blob
\* was read, null otherwise
FileCreated(fetched) == fetched = "ok"

FetchOutcomes == {"ok", "notOk", "rejected", "blobFails"}

\* pc, href, dom, found (the edit button), input (the first file input of
\* the page: absent, hidden or visible), attempts: the call and its page;
\* fetched: how the fetch ended; outcome: returned (noop, done) or threw
\* (failed). History: log (clicks, fetches, assignments and events, in
\* order), probes (querySelector calls of waitForFileInput), slept (ms
\* slept in waitForFileInput), at (the probe that found the input)
IdlePage ==
  [pc |-> "idle", href |-> "none", dom |-> EmptyDom, found |-> NoElement,
   input |-> "absent", attempts |-> 0, fetched |-> "none", outcome |-> "none",
   log |-> << >>, probes |-> 0, slept |-> 0, at |-> 0]

\* the listener gets 'updateProfilePicture': updateProfilePicture runs to
\* its first await; off the profile page it returns at once, else
\* findProfilePictureEditButton has searched the page
PG_Receive ==
  /\ page.pc = "idle"
  /\ \E href \in {"profile", "feed"}, dom \in Doms,
        input \in {"absent", "hidden", "visible"} :
       page' = IF ~GuardPasses(href)
               THEN [IdlePage EXCEPT !.pc = "done", !.href = href,
                                     !.input = input, !.outcome = "noop"]
               ELSE [IdlePage EXCEPT !.pc = "found", !.href = href,
                                     !.input = input, !.dom = dom,
                                     !.found = findProfilePictureEditButton(dom)]

\* if (!editButton) throw; editButton.click(); await this.sleep(1000)
PG_Click ==
  /\ page.pc = "found"
  /\ page' = IF page.found.pos = 0
             THEN [page EXCEPT !.pc = "done", !.outcome = "failed",
                               !.dom = EmptyDom]
             ELSE [page EXCEPT !.pc = "probe", !.dom = EmptyDom,
                               !.log = Append(@, "click:edit")]

\* the page changes while the script sleeps: the dialog and its file
\* input appear, are hidden, or go away
PG_PageChanges ==
  /\ page.pc \in {"probe", "sleep"}
  /\ \E input \in {"absent", "hidden", "visible"} :
       /\ input # page.input
       /\ page' = [page EXCEPT !.input = input]

\* waitForFileInput, one turn of the loop up to its await: the probe; a
\* visible input is returned, and createFileFromPath calls fetch
PG_Probe ==
  /\ page.pc = "probe"
  /\ LoopGoesOn(page.attempts)
  /\ page' = IF page.input = "visible"
             THEN [page EXCEPT !.pc = "fetch", !.probes = @ + 1,
                               !.at = page.probes + 1,
                               !.log = Append(@, "fetch")]
             ELSE [page EXCEPT !.pc = "sleep", !.probes = @ + 1]

\* await this.sleep(500); attempts++; after the last turn null is returned
\* and updateProfilePicture throws 'Could not find file input'
PG_Sleep ==
  /\ page.pc = "sleep"
  /\ LET p == [page EXCEPT !.attempts = @ + 1, !.slept = @ + probeInterval] IN
       page' = IF LoopGoesOn(p.attempts)
               THEN [p EXCEPT !.pc = "probe"]
               ELSE [p EXCEPT !.pc = "done", !.outcome = "failed"]

\* the fetch of createFileFromPath ends; with a File, uploadFile assigns
\* it and dispatches change and input, and waitForUploadComplete starts;
\* without one updateProfilePicture throws 'Could not create file from path'
PG_Fetch ==
  /\ page.pc = "fetch"
  /\ \E fetched \in FetchOutcomes :
       page' = IF FileCreated(fetched)
               THEN [page EXCEPT !.pc = "upload", !.fetched = fetched,
                                 !.log = @ \o <<"assign", "change", "input">>]
               ELSE [page EXCEPT !.pc = "done", !.fetched = fetched,
                                 !.outcome = "failed"]

\* waitForUploadComplete returns; saveChanges clicks the save control it
\* finds
PG_Save ==
  /\ page.pc = "upload"
  /\ \E saveButton \in BOOLEAN :
       page' = [page EXCEPT !.pc = "saved",
                  !.log = IF saveButton THEN Append(@, "click:save") ELSE @]

\* saveChanges clicks the done or close control it finds and returns
PG_Done ==
  /\ page.pc = "saved"
  /\ \E doneButton \in BOOLEAN :
       page' = [page EXCEPT !.pc = "done", !.outcome = "done",
                  !.log = IF doneButton THEN Append(@, "click:done") ELSE @]

\* ------------------------------------------------------------------------
\* Backend and page at rest
\* ------------------------------------------------------------------------
QuietStore == disk = EmptyDisk /\ clr = IdleClear

QuietGenerator == gen = [c \in Callers |-> IdleGen] /\ loc = IdleLocal

QuietBackend == QuietStore /\ QuietGenerator

QuietPage == page = IdlePage

QuietTimer == timer = IdleTimer

\* ------------------------------------------------------------------------
\* Specifications
\* ------------------------------------------------------------------------
\* the alarm an earlier, completed scheduleNextUpdate has left for settings st
AlarmsFor(st) ==
  IF st.isEnabled THEN AlarmsCreate({}, AlarmName, intervalMinutes(st)) ELSE {}

\* Ticks: the alarm of an enabled earlier session is armed, and onMessage
\* 'updateSettings' has just stored the user's settings (auto-update kept on
\* or turned off) and called scheduleNextUpdate, which is at its first await
InitTick ==
  /\ InitRateLimiter
  /\ QuietBackend
  /\ QuietPage /\ QuietTimer
  /\ \E e \in BOOLEAN, i \in {0, 2} :
       store = [DefaultSettings EXCEPT !.isEnabled = e,
                  !.currentImageIndex = i,
                  !.lastUpdate = IF i = 0 THEN Null ELSE 0]
  /\ alarms = AlarmsFor(DefaultSettings)
  /\ tab = NoTab
  /\ run = [r \in Runs |-> IdleRun]
  /\ sched = [s \in Scheds |->
                IF s = "msg" THEN [IdleSched EXCEPT !.pc = "get"] ELSE IdleSched]
  /\ popup = ClosedPopup
  /\ tnow = 1
  /\ hist = [runs |-> 0, msgs |-> 0, starts |-> 0, idle |-> FALSE]

\* Scheduling: the service worker has just been constructed (init() is at its
\* first await) over the store and alarm of an earlier session
InitSched ==
  /\ InitRateLimiter
  /\ QuietBackend
  /\ QuietPage /\ QuietTimer
  /\ \E e \in BOOLEAN : store = [DefaultSettings EXCEPT !.isEnabled = e]
  /\ alarms = AlarmsFor(store)
  /\ tab = NoTab
  /\ run = [r \in Runs |-> IdleRun]
  /\ sched = [s \in Scheds |->
                IF s = "init" THEN [IdleSched EXCEPT !.pc = "initGet"] ELSE IdleSched]
  /\ popup = ClosedPopup
  /\ tnow = 1
  /\ hist = [runs |-> 0, msgs |-> 0, starts |-> 0, idle |-> FALSE]

\* the extension at rest, for the specification of the backend alone
QuietExtension ==
  /\ store = DefaultSettings
  /\ alarms = {}
  /\ tab = NoTab
  /\ run = [r \in Runs |-> IdleRun]
  /\ sched = [s \in Scheds |-> IdleSched]
  /\ popup = ClosedPopup
  /\ tnow = 1
  /\ hist = [runs |-> 0, msgs |-> 0, starts |-> 0, idle |-> FALSE]

\* one caller: every wait() is awaited before the next one is issued
NextRateLimiter ==
  \/ WaitCall("a") /\ UNCHANGED <<extvars, bevars, page, timer>>
  \/ WaitResume("a") /\ UNCHANGED <<extvars, bevars, page, timer>>
  \/ Advance /\ UNCHANGED <<extvars, bevars, page, timer>>

\* the backend process after new ImageGenerator(), the extension at rest
InitBackend == QuietExtension /\ QuietBackend /\ QuietPage /\ QuietTimer /\ InitRateLimiter

SpecRateLimiter == InitBackend /\ [][NextRateLimiter]_vars

\* two overlapping generate requests share generator.rateLimiter: each
\* caller awaits its own wait() before it issues its next one
NextShared ==
  \/ \E c \in Callers :
       ncalls < MaxSharedCalls /\ WaitCall(c)
         /\ UNCHANGED <<extvars, bevars, page, timer>>
  \/ \E c \in Callers : WaitResume(c) /\ UNCHANGED <<extvars, bevars, page, timer>>
  \/ Advance /\ UNCHANGED <<extvars, bevars, page, timer>>

SpecShared == InitBackend /\ [][NextShared]_vars

NextTick ==
  \/ AlarmFired /\ UNCHANGED <<rlvars, bevars, page, timer>>
  \/ ForceUpdate /\ UNCHANGED <<rlvars, bevars, page, timer>>
  \/ \E r \in Runs : HSU_GetSettings(r) /\ UNCHANGED <<rlvars, bevars, page, timer>>
  \/ \E r \in Runs : HSU_GetStoredImages(r) /\ UNCHANGED <<rlvars, bevars, page, timer>>
  \/ \E r \in Runs : HSU_EnsureTab(r) /\ UNCHANGED <<rlvars, bevars, page, timer>>
  \/ \E r \in Runs : HSU_WaitForTabLoad(r) /\ UNCHANGED <<rlvars, bevars, page, timer>>
  \/ TabComplete /\ UNCHANGED <<rlvars, bevars, page, timer>>
  \/ \E r \in Runs : HSU_SendMessage(r) /\ UNCHANGED <<rlvars, bevars, page, timer>>
  \/ \E r \in Runs : ApplyEnds(r) /\ UNCHANGED <<rlvars, bevars, page, timer>>
  \/ \E r \in Runs : HSU_Advance(r) /\ UNCHANGED <<rlvars, bevars, page, timer>>
  \/ UserTab /\ UNCHANGED <<rlvars, bevars, page, timer>>
  \/ SNU_GetSettings("msg") /\ UNCHANGED <<rlvars, bevars, page, timer>>
  \/ SNU_ClearDisabled("msg") /\ UNCHANGED <<rlvars, bevars, page, timer>>
  \/ SNU_Clear("msg") /\ UNCHANGED <<rlvars, bevars, page, timer>>
  \/ SNU_Create("msg") /\ UNCHANGED <<rlvars, bevars, page, timer>>

SpecTick == InitTick /\ [][NextTick]_vars

NextSched ==
  \/ WorkerStart /\ UNCHANGED <<rlvars, bevars, page, timer>>
  \/ Init_GetSettings /\ UNCHANGED <<rlvars, bevars, page, timer>>
  \/ Init_SetSettings /\ UNCHANGED <<rlvars, bevars, page, timer>>
  \/ \E s \in Scheds : SNU_GetSettings(s) /\ UNCHANGED <<rlvars, bevars, page, timer>>
  \/ \E s \in Scheds : SNU_ClearDisabled(s) /\ UNCHANGED <<rlvars, bevars, page, timer>>
  \/ \E s \in Scheds : SNU_Clear(s) /\ UNCHANGED <<rlvars, bevars, page, timer>>
  \/ \E s \in Scheds : SNU_Create(s) /\ UNCHANGED <<rlvars, bevars, page, timer>>
  \/ OnScheduleUpdate /\ UNCHANGED <<rlvars, bevars, page, timer>>
  \/ PopupLoadSettings /\ UNCHANGED <<rlvars, bevars, page, timer>>
  \/ PopupToggleEnabled /\ UNCHANGED <<rlvars, bevars, page, timer>>
  \/ PopupSetFrequency /\ UNCHANGED <<rlvars, bevars, page, timer>>
  \/ PopupSetCustomDays /\ UNCHANGED <<rlvars, bevars, page, timer>>
  \/ PopupSaveSettings /\ UNCHANGED <<rlvars, bevars, page, timer>>
  \/ OnUpdateSettings /\ UNCHANGED <<rlvars, bevars, page, timer>>

SpecSched == InitSched /\ [][NextSched]_vars

\* The store: the server is up over a directory left by earlier sessions
InitStore ==
  /\ InitRateLimiter
  /\ QuietExtension
  /\ QuietGenerator
  /\ QuietPage /\ QuietTimer
  /\ \E d \in BOOLEAN, fs \in SUBSET OldFiles :
       disk = [dir |-> d, files |-> IF d THEN fs ELSE {}]
  /\ clr = IdleClear

NextStore ==
  \/ CSI_Start /\ UNCHANGED <<rlvars, extvars, gen, loc, page, timer>>
  \/ CSI_Readdir /\ UNCHANGED <<rlvars, extvars, gen, loc, page, timer>>
  \/ CSI_Unlink /\ UNCHANGED <<rlvars, extvars, gen, loc, page, timer>>
  \/ GSI_Start /\ UNCHANGED <<rlvars, extvars, gen, loc, page, timer>>
  \/ GSI_Readdir /\ UNCHANGED <<rlvars, extvars, gen, loc, page, timer>>
  \/ StoreWrite /\ UNCHANGED <<rlvars, extvars, gen, loc, page, timer>>

SpecStore == InitStore /\ [][NextStore]_vars

\* Serving: the server is up over an empty directory; batches write into
\* it, and it is listed, cleared and served from until the process ends
InitServe == InitBackend

ServerUp == ~clr.crashed

NextServe ==
  \/ ServerUp /\ CSI_Start /\ UNCHANGED <<rlvars, extvars, gen, loc, page, timer>>
  \/ ServerUp /\ CSI_Readdir /\ UNCHANGED <<rlvars, extvars, gen, loc, page, timer>>
  \/ ServerUp /\ CSI_Unlink /\ UNCHANGED <<rlvars, extvars, gen, loc, page, timer>>
  \/ ServerUp /\ GSI_Start /\ UNCHANGED <<rlvars, extvars, gen, loc, page, timer>>
  \/ ServerUp /\ GSI_Readdir /\ UNCHANGED <<rlvars, extvars, gen, loc, page, timer>>
  \/ ServerUp /\ StoreWrite /\ UNCHANGED <<rlvars, extvars, gen, loc, page, timer>>
  \/ (\E f \in ServeNames : SRV_Start(f))
       /\ UNCHANGED <<rlvars, extvars, gen, loc, page, timer>>
  \/ SRV_Access /\ UNCHANGED <<rlvars, extvars, gen, loc, page, timer>>
  \/ SRV_Open /\ UNCHANGED <<rlvars, extvars, gen, loc, page, timer>>

SpecServe == InitServe /\ [][NextServe]_vars

\* Generation: one request, or one direct call, on a server that has just
\* started in API mode or in local mode
InitGenerate ==
  /\ InitRateLimiter
  /\ QuietExtension
  /\ QuietPage /\ QuietTimer
  /\ loc = IdleLocal
  /\ clr = IdleClear
  /\ \E d \in BOOLEAN, fs \in {{}, {File("old", 0, 1, "png"), MetadataFile}} :
       disk = [dir |-> d, files |-> IF d THEN fs ELSE {}]
  /\ \E m \in BOOLEAN : gen = [c \in Callers |-> [IdleGen EXCEPT !.local = m]]

NextGenerate ==
  \/ GEN_Request("a") /\ UNCHANGED <<rlvars, extvars, page, timer>>
  \/ GFB_Request("a") /\ UNCHANGED <<rlvars, extvars, page, timer>>
  \/ GFB_EnsureDirectories("a") /\ UNCHANGED <<rlvars, extvars, page, timer>>
  \/ GFB_FindBase("a") /\ UNCHANGED <<rlvars, extvars, page, timer>>
  \/ GI_Ensure("a") /\ UNCHANGED <<rlvars, extvars, page, timer>>
  \/ GI_ReadFile("a") /\ UNCHANGED <<rlvars, extvars, page, timer>>
  \/ GI_Extract("a") /\ UNCHANGED <<rlvars, extvars, page, timer>>
  \/ GI_Local("a") /\ UNCHANGED <<rlvars, extvars, page, timer>>
  \/ GI_Wait("a") /\ UNCHANGED <<extvars, page, timer>>
  \/ GI_Api("a") /\ UNCHANGED <<rlvars, extvars, page, timer>>
  \/ GI_Write("a") /\ UNCHANGED <<rlvars, extvars, page, timer>>
  \/ GI_Fallback("a") /\ UNCHANGED <<rlvars, extvars, page, timer>>
  \/ GI_SaveMetadata("a") /\ UNCHANGED <<rlvars, extvars, page, timer>>
  \/ WaitResume("a") /\ UNCHANGED <<extvars, bevars, page, timer>>
  \/ TimerElapses /\ UNCHANGED <<extvars, bevars, page, timer>>

SpecGenerate == InitGenerate /\ [][NextGenerate]_vars

\* Overlap: two requests on a server in local mode, each for one or two
\* images. Date.now() is read in whole milliseconds: steps of the two calls
\* may fall into the same one, and a call that has returned has taken at
\* least one
OverlapCounts == {1, 2}

InitOverlap ==
  /\ InitRateLimiter
  /\ QuietExtension
  /\ QuietStore
  /\ QuietPage /\ QuietTimer
  /\ loc = IdleLocal
  /\ gen = [c \in Callers |-> [IdleGen EXCEPT !.local = TRUE]]

\* a millisecond passes
OV_Millisecond ==
  /\ now < MaxOverlapTime
  /\ now' = now + 1
  /\ UNCHANGED <<requests, wpc, wnow, wakeAt, admitted, ncalls>>

NextOverlap ==
  \/ \E c \in Callers :
       /\ GEN_Request(c)
       /\ gen'[c].photo /\ gen'[c].raw \in OverlapCounts
       /\ UNCHANGED <<rlvars, extvars, page, timer>>
  \/ \E c \in Callers : GI_Ensure(c) /\ UNCHANGED <<rlvars, extvars, page, timer>>
  \/ \E c \in Callers : GI_ReadFile(c) /\ UNCHANGED <<rlvars, extvars, page, timer>>
  \/ \E c \in Callers : GI_Extract(c) /\ UNCHANGED <<rlvars, extvars, page, timer>>
  \/ \E c \in Callers : GI_Local(c) /\ UNCHANGED <<rlvars, extvars, page, timer>>
  \/ \E c \in Callers :
       /\ GI_SaveMetadata(c)
       /\ now' = now + 1
       /\ UNCHANGED <<requests, wpc, wnow, wakeAt, admitted, ncalls,
                      extvars, page, timer>>
  \/ OV_Millisecond /\ UNCHANGED <<extvars, bevars, page, timer>>

SpecOverlap == InitOverlap /\ [][NextOverlap]_vars

\* The local strategy: one generateImages call of a server in local mode
InitLocal ==
  /\ InitRateLimiter
  /\ QuietExtension
  /\ QuietBackend
  /\ QuietPage /\ QuietTimer

NextLocal ==
  \/ LOC_Start /\ UNCHANGED <<rlvars, extvars, page, timer>>
  \/ LOC_Item /\ UNCHANGED <<rlvars, extvars, page, timer>>
  \/ LOC_Return /\ UNCHANGED <<rlvars, extvars, page, timer>>

SpecLocal == InitLocal /\ [][NextLocal]_vars

\* The page: the content script has been injected and listens
InitPage ==
  /\ InitRateLimiter
  /\ QuietExtension
  /\ QuietBackend
  /\ QuietPage /\ QuietTimer

NextPage ==
  \/ PG_Receive /\ UNCHANGED <<rlvars, extvars, bevars, timer>>
  \/ PG_Click /\ UNCHANGED <<rlvars, extvars, bevars, timer>>
  \/ PG_PageChanges /\ UNCHANGED <<rlvars, extvars, bevars, timer>>
  \/ PG_Probe /\ UNCHANGED <<rlvars, extvars, bevars, timer>>
  \/ PG_Sleep /\ UNCHANGED <<rlvars, extvars, bevars, timer>>
  \/ PG_Fetch /\ UNCHANGED <<rlvars, extvars, bevars, timer>>
  \/ PG_Save /\ UNCHANGED <<rlvars, extvars, bevars, timer>>
  \/ PG_Done /\ UNCHANGED <<rlvars, extvars, bevars, timer>>

\* timers fire and resolved promises are continued: the probe and the
\* sleep of waitForFileInput are taken when they can be
SpecPage ==
  InitPage /\ [][NextPage]_vars
    /\ WF_vars(PG_Probe /\ UNCHANGED <<rlvars, extvars, bevars, timer>>)
    /\ WF_vars(PG_Sleep /\ UNCHANGED <<rlvars, extvars, bevars, timer>>)

\* The popup and a forced update side by side: the service worker is up,
\* auto-update is on and its alarm is armed
InitPopup ==
  /\ InitRateLimiter
  /\ QuietBackend
  /\ QuietPage /\ QuietTimer
  /\ store = DefaultSettings
  /\ alarms = AlarmsFor(DefaultSettings)
  /\ tab = NoTab
  /\ run = [r \in Runs |-> IdleRun]
  /\ sched = [s \in Scheds |-> IdleSched]
  /\ popup = ClosedPopup
  /\ tnow = 1
  /\ hist = [runs |-> 0, msgs |-> 0, starts |-> 0, idle |-> FALSE]

NextPopup ==
  \/ PopupLoadSettings /\ UNCHANGED <<rlvars, bevars, page, timer>>
  \/ PopupToggleEnabled /\ UNCHANGED <<rlvars, bevars, page, timer>>
  \/ PopupSetFrequency /\ UNCHANGED <<rlvars, bevars, page, timer>>
  \/ PopupSetCustomDays /\ UNCHANGED <<rlvars, bevars, page, timer>>
  \/ PopupSaveSettings /\ UNCHANGED <<rlvars, bevars, page, timer>>
  \/ OnUpdateSettings /\ UNCHANGED <<rlvars, bevars, page, timer>>
  \/ SNU_GetSettings("msg") /\ UNCHANGED <<rlvars, bevars, page, timer>>
  \/ SNU_ClearDisabled("msg") /\ UNCHANGED <<rlvars, bevars, page, timer>>
  \/ SNU_Clear("msg") /\ UNCHANGED <<rlvars, bevars, page, timer>>
  \/ SNU_Create("msg") /\ UNCHANGED <<rlvars, bevars, page, timer>>
  \/ ForceUpdate /\ UNCHANGED <<rlvars, bevars, page, timer>>
  \/ HSU_GetSettings("force") /\ UNCHANGED <<rlvars, bevars, page, timer>>
  \/ HSU_GetStoredImages("force") /\ UNCHANGED <<rlvars, bevars, page, timer>>
  \/ HSU_EnsureTab("force") /\ UNCHANGED <<rlvars, bevars, page, timer>>
  \/ HSU_WaitForTabLoad("force") /\ UNCHANGED <<rlvars, bevars, page, timer>>
  \/ TabComplete /\ UNCHANGED <<rlvars, bevars, page, timer>>
  \/ HSU_SendMessage("force") /\ UNCHANGED <<rlvars, bevars, page, timer>>
  \/ HSU_Advance("force") /\ UNCHANGED <<rlvars, bevars, page, timer>>

SpecPopup == InitPopup /\ [][NextPopup]_vars

\* Scheduled ticks in time: the extension has just been installed with the
\* default settings (auto-update on, weekly) and init() is at its first
\* await; the settings are re-saved as they are, never edited
InitAlarm ==
  /\ InitRateLimiter
  /\ QuietBackend
  /\ QuietPage /\ QuietTimer
  /\ store = DefaultSettings
  /\ alarms = {}
  /\ tab = NoTab
  /\ run = [r \in Runs |-> IdleRun]
  /\ sched = [s \in Scheds |->
                IF s = "init" THEN [IdleSched EXCEPT !.pc = "initGet"] ELSE IdleSched]
  /\ popup = ClosedPopup
  /\ tnow = 1
  /\ hist = [runs |-> 0, msgs |-> 0, starts |-> 0, idle |-> FALSE]

NextAlarm ==
  \/ WorkerStart /\ UNCHANGED <<rlvars, bevars, page, timer>>
  \/ Init_GetSettings /\ UNCHANGED <<rlvars, bevars, page, timer>>
  \/ Init_SetSettings /\ UNCHANGED <<rlvars, bevars, page, timer>>
  \/ \E s \in Scheds : SNU_GetSettings(s) /\ UNCHANGED <<rlvars, bevars, page, timer>>
  \/ \E s \in Scheds : AL_Clear(s) /\ UNCHANGED <<rlvars, bevars, page>>
  \/ \E s \in Scheds : AL_Create(s) /\ UNCHANGED <<rlvars, bevars, page>>
  \/ OnScheduleUpdate /\ UNCHANGED <<rlvars, bevars, page, timer>>
  \/ PopupLoadSettings /\ UNCHANGED <<rlvars, bevars, page, timer>>
  \/ PopupSaveSettings /\ UNCHANGED <<rlvars, bevars, page, timer>>
  \/ OnUpdateSettings /\ UNCHANGED <<rlvars, bevars, page, timer>>
  \/ AL_TimePasses /\ UNCHANGED <<rlvars, bevars, page>>
  \/ AL_Fire /\ UNCHANGED <<rlvars, bevars, page>>
  \/ HSU_GetSettings("alarm") /\ UNCHANGED <<rlvars, bevars, page, timer>>
  \/ HSU_GetStoredImages("alarm") /\ UNCHANGED <<rlvars, bevars, page, timer>>
  \/ HSU_EnsureTab("alarm") /\ UNCHANGED <<rlvars, bevars, page, timer>>
  \/ HSU_WaitForTabLoad("alarm") /\ UNCHANGED <<rlvars, bevars, page, timer>>
  \/ TabComplete /\ UNCHANGED <<rlvars, bevars, page, timer>>
  \/ HSU_SendMessage("alarm") /\ UNCHANGED <<rlvars, bevars, page, timer>>
  \/ HSU_Advance("alarm") /\ UNCHANGED <<rlvars, bevars, page, timer>>

SpecAlarm == InitAlarm /\ [][NextAlarm]_vars

\* ------------------------------------------------------------------------
\* Claims about the RateLimiter (SpecRateLimiter)
\* ------------------------------------------------------------------------

\* number of admissions that completed in the interval [t, t + timeWindow)
AdmittedIn(t) ==
  Cardinality({i \in 1..Len(admitted) :
                 admitted[i].done >= t /\ admitted[i].done < t + timeWindow})

\* C1: in any interval of length timeWindow at most maxRequests calls of
\* wait() return, also after an admission that was suspended at the limit.
C1_AtMostMaxPerWindow ==
  \A i \in 1..Len(admitted) : AdmittedIn(admitted[i].done) <= maxRequests

\* C5: whenever wait() has returned, this.requests holds at most maxRequests
\* timestamps.
C5_RequestsBounded ==
  (wpc["a"] = "idle" /\ Len(admitted) > 0) => Len(requests) <= maxRequests

\* the first maxRequests + 1 calls were issued inside one window
BackToBack ==
  /\ Len(admitted) >= maxRequests + 1
  /\ admitted[maxRequests + 1].call - admitted[1].call < timeWindow

\* C6: on an empty limiter the first maxRequests calls return without
\* suspension; the next one returns no earlier than timeWindow after the
\* first admission, and when the calls are back-to-back it is suspended
\* until the oldest timestamp + timeWindow + the 1000 ms margin.
C6_NextAdmissionWaitsOutWindow ==
  /\ \A i \in 1..Len(admitted) : i <= maxRequests => ~admitted[i].suspended
  /\ Len(admitted) >= maxRequests + 1 =>
        admitted[maxRequests + 1].done >= admitted[1].done + timeWindow
  /\ BackToBack =>
        /\ admitted[maxRequests + 1].suspended
        /\ admitted[maxRequests + 1].done >=
             admitted[1].done + timeWindow + safetyMargin

C6_Witness ==
  /\ BackToBack
  /\ admitted[maxRequests + 1].call = admitted[1].call
  /\ admitted[maxRequests + 1].done = admitted[1].done + timeWindow + safetyMargin

\* ------------------------------------------------------------------------
\* Claims about handleScheduledUpdate (SpecTick)
\* ------------------------------------------------------------------------
\* run r takes the step that leaves position p
Leaves(r, p) == run[r].pc = p /\ run'[r].pc # p

\* call s of scheduleNextUpdate takes the step that leaves position p
SchedLeaves(s, p) == sched[s].pc = p /\ sched'[s].pc # p

\* C2: a tick that reaches dispatch with n images fetched and index r read
\* sends images[r mod n] and stores (r + 1) mod n, which lies in 0..n-1.
C2_SelectsAndStoresModulo ==
  [][\A r \in Runs :
       LET n == Len(run[r].images)
           k == run[r].settings.currentImageIndex
       IN /\ Leaves(r, "send") =>
               /\ n >= 1
               /\ run'[r].sent = run[r].images[(k % n) + 1]
          /\ Leaves(r, "set") =>
               /\ store'.currentImageIndex = (k + 1) % n
               /\ store'.currentImageIndex >= 0
               /\ store'.currentImageIndex < n]_vars

\* the example of the specification: three images, index 2 read
C2_Witness ==
  \E r \in Runs :
    /\ run[r].outcome = "advanced"
    /\ run[r].sent = "g3"
    /\ run[r].wrote = 0
    /\ store.currentImageIndex = 0

\* C3: once the command is sent, the tick writes the advanced index and
\* lastUpdate whatever response came back (ok, not ok, none, rejected).
C3_AdvancesWhateverTheResponse ==
  [][\A r \in Runs :
       /\ Leaves(r, "send") => run'[r].pc = "set"
       /\ Leaves(r, "set") =>
            /\ run[r].resp \in Responses
            /\ run'[r].pc = "idle"
            /\ store'.currentImageIndex =
                 (run[r].settings.currentImageIndex + 1) % Len(run[r].images)
            /\ store'.lastUpdate = tnow
            /\ store'.lastUpdate # store.lastUpdate]_vars

C3_Witness ==
  \E r \in Runs :
    /\ run[r].outcome = "advanced"
    /\ run[r].resp = "rejected"
    /\ "send" \in run[r].effects
    /\ store.lastUpdate = tnow - 1
    /\ store.currentImageIndex = run[r].wrote

\* C4: an apply attempt that fails in the page is acknowledged to the
\* scheduler with success not true.
C4_FailedAttemptNotAcknowledged ==
  \A r \in Runs : run[r].apply = "failed" => run[r].resp # "ok"

\* C7: a tick that reads isEnabled = false stops there: no fetch, no tab
\* created or navigated, no command, store untouched.
C7_DisabledTickAborts ==
  [][\A r \in Runs :
       (Leaves(r, "get") /\ ~store.isEnabled) =>
          /\ run'[r].pc = "idle"
          /\ run'[r].effects = {}
          /\ run'[r].sent = ""
          /\ store' = store
          /\ tab' = tab]_vars

\* the alarm fired although auto-update had been turned off after it was armed
C7_Witness ==
  /\ run["alarm"].outcome = "disabled"
  /\ run["alarm"].pc = "idle"
  /\ ~store.isEnabled
  /\ \E a \in alarms : a.name = AlarmName

\* C8: a tick whose image list is empty (nothing stored, success:false, or a
\* failed fetch) stops there: no tab, no command, store untouched; a tick
\* that goes on has at least one image.
C8_EmptyListTickAborts ==
  [][\A r \in Runs :
       /\ (Leaves(r, "fetch")
             /\ (run'[r].resp \in {"failure", "throws"} \/ Len(run'[r].images) = 0)) =>
            /\ run'[r].pc = "idle"
            /\ run'[r].effects = {"fetch"}
            /\ run'[r].sent = ""
            /\ store' = store
            /\ tab' = tab
       /\ (Leaves(r, "fetch") /\ run'[r].pc # "idle") =>
            Len(run'[r].images) >= 1]_vars

C8_Witness ==
  \E r \in Runs :
    /\ run[r].outcome = "noImages"
    /\ run[r].resp = "failure"
    /\ run[r].pc = "idle"
    /\ run[r].wrote = Null

\* ------------------------------------------------------------------------
\* Claims about scheduleNextUpdate (SpecSched)
\* ------------------------------------------------------------------------
Registered == {a \in alarms : a.name = AlarmName}

\* C9: once a scheduleNextUpdate that read isEnabled = false has completed,
\* no alarm is registered for as long as no settings with isEnabled = true
\* are stored.
C9_IdleUntilEnabled == hist.idle => Registered = {}

\* the period the settings ask for, in minutes
ExpectedPeriod(st) ==
  IF st.frequency = "daily" THEN 1440
  ELSE IF st.frequency = "custom" THEN st.customInterval * 1440
  ELSE 10080

C19_ListEmptyAfterClear ==
  [][(clr.lpc = "readdir" /\ clr'.lpc = "idle" /\ clr.lafter) =>
       /\ clr'.listed.success
       /\ clr'.listed.status = 200
       /\ clr'.listed.count = 0
       /\ clr'.listed.images = {}]_vars

\* DELETE /images removed a .png, a .jpg and a .jpeg file, metadata.json is
\* still there, and the GET /images after it has answered
C19_Witness ==
  /\ clr.lpc = "idle"
  /\ clr.lafter
  /\ clr.listed.status = 200
  /\ clr.listed.count = 0
  /\ clr.result.success
  /\ clr.result.count = 3
  /\ MetadataFile \in disk.files

\* C20: a clearStoredImages that returns success reports the number of
\* files it deleted; one called right after a successful one (nothing
\* written in between) returns success with count 0 and leaves the
\* directory as it found it.
C20_ClearIdempotent ==
  [][(clr.pc # "idle" /\ clr'.pc = "idle") =>
       /\ clr'.result.success => clr'.result.count = clr'.deleted
       /\ clr.second =>
            /\ clr'.result.success
            /\ clr'.result.count = 0
            /\ clr'.result.status = 200
            /\ disk'.files = clr.before]_vars

\* the first call deleted two files, the second one has returned count 0
C20_Witness ==
  /\ clr.pc = "idle"
  /\ clr.second
  /\ clr.prev.success
  /\ clr.prev.count = 2
  /\ clr.result.success
  /\ clr.result.count = 0
  /\ disk.files # {}

\* ------------------------------------------------------------------------
\* Claims about generateImages (SpecGenerate)
\* ------------------------------------------------------------------------
\* the filenames of a sequence of files
NamesOf(images) == {images[k] : k \in 1..Len(images)}

\* wait() calls of caller c that were admitted or are suspended
AdmissionsOf(c) ==
  Cardinality({k \in 1..Len(admitted) : admitted[k].caller = c})
    + (IF wpc[c] = "sleeping" THEN 1 ELSE 0)

\* C11: once generateImages has entered its loop, it attempts every index
\* 0..count-1 in order whatever fails on an item; on the API path each item
\* gets one remote attempt and, exactly when that fails, one fallback
\* attempt; an item leaves at most one file, none when the fallback failed
\* too; and with the metadata saved the call returns success with exactly
\* the files it wrote, 0 <= returned count <= count.
C11_BatchNeverAborts ==
  \A c \in Callers :
    LET g == gen[c] IN
      /\ g.looped =>
           /\ Len(g.items) = g.i
           /\ g.i <= g.count
           /\ g.pc \in {"meta", "done"} => g.i = g.count
           /\ \A k \in 1..Len(g.items) :
                /\ g.items[k].index = k - 1
                /\ g.items[k].fallback <= 1
                /\ ~g.local =>
                     /\ g.items[k].remote = 1
                     /\ g.items[k].fallback = 1 <=> g.items[k].rfailed
                     /\ g.items[k].file = NoFile =>
                          (g.items[k].rfailed /\ g.items[k].fallback = 1)
                /\ g.items[k].file # NoFile => g.items[k].file.n = k
           /\ NamesOf(g.images) =
                {g.items[k].file : k \in 1..Len(g.items)} \ {NoFile}
           /\ Cardinality(NamesOf(g.images)) = Len(g.images)
      /\ (g.pc = "done" /\ g.looped) => (g.result.success <=> g.metaSaved)
      /\ (g.pc = "done" /\ g.result.success) =>
           /\ NamesOf(g.result.images) = g.written \ {MetadataFile}
           /\ NamesOf(g.result.images) \subseteq disk.files
           /\ g.result.count = Len(g.result.images)
           /\ g.result.count >= 0
           /\ g.result.count <= g.count

\* of three items one was written by the API path, one by the fallback and
\* one was skipped, and the call returned success with the two files
C11_Witness ==
  \E c \in Callers :
    LET g == gen[c] IN
      /\ g.pc = "done"
      /\ g.result.success
      /\ g.count = 3
      /\ g.result.count = 2
      /\ g.apiCalls = 3
      /\ \E k \in 1..3 : g.items[k].fallback = 1 /\ g.items[k].file = NoFile
      /\ \E k \in 1..3 : g.items[k].fallback = 1 /\ g.items[k].file # NoFile
      /\ \E k \in 1..3 : g.items[k].fallback = 0 /\ g.items[k].file # NoFile

\* C12: a numImages below 1 or above 50 fails the whole call: called
\* directly, generateImages returns success:false with an error, with no
\* rate-limiter admission, no API call and the directory untouched; the
\* routes POST /generate-images and POST /generate-images-base64 answer 400
\* without calling generateImages.
C12_OutOfRangeRejected ==
  \A c \in Callers :
    LET g == gen[c] IN
      (g.pc # "idle" /\ (g.raw < 1 \/ g.raw > 50)
         /\ g.route \in {"direct", "/generate-images", "/generate-images-base64"}) =>
        /\ g.pc = "done"
        /\ g.apiCalls = 0
        /\ AdmissionsOf(c) = 0
        /\ g.written = {}
        /\ disk = g.before
        /\ g.route = "direct" =>
             /\ g.invoked
             /\ ~g.result.success
             /\ g.result.error
        /\ g.route # "direct" =>
             /\ g.status = 400
             /\ ~g.invoked

\* ------------------------------------------------------------------------
\* Claims about the local strategy (SpecLocal)
\* ------------------------------------------------------------------------
\* C13: the images a local-strategy call returns were made with pairwise
\* different transform parameters, and there are at most count of them.
C13_LocalItemsDistinct ==
  loc.pc = "done" =>
    /\ loc.result.count <= loc.count
    /\ \A j, k \in 1..Len(loc.out) :
         j # k => loc.out[j].params # loc.out[k].params

\* ------------------------------------------------------------------------
\* Claims on the content script
\* ------------------------------------------------------------------------
\* the lowest position of a set of positions
First(S) == CHOOSE p \in S : \A q \in S : p <= q

\* the selectors of the list whose first match in the page is rendered
SelectorsThatMatch(dom) ==
  {k \in 1..4 :
     LET M == {p \in 1..Len(dom.els) : dom.els[p].sel = k} IN
       M # {} /\ dom.els[First(M)].visible}

\* the buttons in the container of the profile photo whose text matches
NearMatches(dom) ==
  {p \in 1..Len(dom.els) : dom.photo /\ dom.els[p].near /\ dom.els[p].text}

\* the buttons of the page whose text matches
TextMatches(dom) == {p \in 1..Len(dom.els) : dom.els[p].text}

\* C14: findProfilePictureEditButton returns the match of the first
\* strategy that has one, taken in the order selector list, text match
\* near the profile photo, text scan of all buttons: the text scan's
\* element when only the text scan matches, and null only when no strategy
\* matches
C14_HighestPriorityMatch ==
  page.pc = "found" =>
    LET dom == page.dom
        A == SelectorsThatMatch(dom)
        B == NearMatches(dom)
        C == TextMatches(dom) IN
      /\ A # {} =>
           /\ page.found.by = "a"
           /\ page.found.pos =
                First({p \in 1..Len(dom.els) : dom.els[p].sel = First(A)})
      /\ A = {} /\ B # {} =>
           page.found.by = "b" /\ page.found.pos = First(B)
      /\ A = {} /\ B = {} /\ C # {} =>
           page.found.by = "c" /\ page.found.pos = First(C)
      /\ page.found.pos = 0 <=> A = {} /\ B = {} /\ C = {}

\* only the text scan matches although a selector of the list has a (not
\* rendered) match and the page has a profile photo
C14_Witness ==
  /\ page.pc = "found"
  /\ page.found.by = "c"
  /\ page.dom.photo
  /\ \E p \in 1..Len(page.dom.els) : page.dom.els[p].sel # 0

\* C15: every element findProfilePictureEditButton returns is visible
\* (offsetParent non-null), whichever strategy found it, and an invisible
\* candidate is never clicked
C15_ReturnedElementVisible ==
  page.found.pos # 0 => page.found.visible

\* C16: updateProfilePicture called on a page that is not a profile page
\* does nothing: no click, no fetch, no file assignment, no event, no
\* search of the page
C16_NoOpOffProfile ==
  page.pc # "idle" /\ page.href # "profile" =>
    page = [IdlePage EXCEPT !.pc = "done", !.href = page.href,
                            !.input = page.input, !.outcome = "noop"]

\* the call returned on the feed page
C16_Witness ==
  page.pc = "done" /\ page.href = "feed" /\ page.outcome = "noop"

\* what waitForFileInput keeps true at every step
WaitForFileInputBounded ==
  /\ page.probes <= maxAttempts
  /\ page.attempts <= maxAttempts
  /\ page.slept = page.attempts * probeInterval
  /\ page.pc \in {"probe", "sleep"} => page.probes \in {page.attempts, page.attempts + 1}
  /\ page.at # 0 =>
       /\ page.at = page.probes
       /\ page.attempts = page.at - 1
  /\ page.outcome = "failed" /\ page.found.pos # 0 /\ page.fetched = "none" =>
       /\ page.probes = maxAttempts
       /\ page.at = 0
       /\ page.log = <<"click:edit">>

\* a probe that finds a visible input returns it at once; any other probe
\* is followed by the sleep
ProbeReturnsAtOnce ==
  page.pc = "probe" /\ page'.probes = page.probes + 1 =>
    IF page.input = "visible"
    THEN page'.pc = "fetch" /\ page'.at = page'.probes
    ELSE page'.pc = "sleep" /\ page'.at = 0

\* C17: waitForFileInput always terminates: it probes at most maxAttempts
\* (20) times, 500 ms apart, returns the input at the first probe that
\* finds one visible, and returns null after the last probe, in which case
\* the attempt fails with no image fetched and no file assigned
C17_WaitForFileInputTerminates ==
  /\ []WaitForFileInputBounded
  /\ [][ProbeReturnsAtOnce]_vars
  /\ (page.pc \in {"probe", "sleep"}) ~> (page.pc \notin {"probe", "sleep"})

\* all twenty probes found no visible input and the attempt failed
C17_Witness ==
  /\ page.outcome = "failed"
  /\ page.probes = maxAttempts
  /\ page.slept = maxAttempts * probeInterval
  /\ page.fetched = "none"

\* C18: when the fetch of the image fails or its response is not ok the
\* attempt fails at that step: no file is assigned, no change or input
\* event is dispatched, no save, done or close control is clicked
C18_FetchFailureStopsAttempt ==
  page.fetched \in FetchOutcomes \ {"ok"} =>
    /\ page.pc = "done"
    /\ page.outcome = "failed"
    /\ page.log = <<"click:edit", "fetch">>

\* the server answered with a status that is not ok
C18_Witness ==
  page.fetched = "notOk" /\ page.outcome = "failed"

\* ------------------------------------------------------------------------
\* Claims about overlapping reschedules (SpecSched)
\* ------------------------------------------------------------------------
\* no init and no scheduleNextUpdate is in flight, and no updateSettings
\* message is on its way to the service worker
NoRescheduleInFlight ==
  /\ \A s \in Scheds : sched[s].pc = "idle"
  /\ ~popup.msg

\* C30: whenever no scheduleNextUpdate call is in flight, the alarm is
\* registered if and only if the stored isEnabled is true, under every
\* interleaving of the reschedules of init, scheduleUpdate and
\* updateSettings.
C30_AlarmMatchesEnabled ==
  NoRescheduleInFlight => (Registered # {} <=> store.isEnabled)

\* ------------------------------------------------------------------------
\* Claims about overlapping runs (SpecTick)
\* ------------------------------------------------------------------------
\* C28: every completed dispatching run advances the stored
\* currentImageIndex by exactly one modulo the number of images, also when
\* runs overlap: the index a run stores is one past the index stored when
\* it completes.
C28_EachRunAdvancesByOne ==
  [][\A r \in Runs :
       Leaves(r, "set") =>
         store'.currentImageIndex =
           (store.currentImageIndex + 1) % Len(run[r].images)]_vars

\* the run of trigger r is in flight
InFlight(r) == run[r].pc # "idle"

\* C23: nothing excludes a scheduled tick and a forced update from each
\* other: while the run of one trigger is in flight the other trigger
\* still starts its own run (the alarm whenever it is registered, the
\* forceUpdate message always), and both runs send updateProfilePicture to
\* the one LinkedIn tab.
C23_NoMutualExclusion ==
  /\ (InFlight("force") /\ ~InFlight("alarm") /\ Registered # {}
        /\ hist.runs < MaxRuns) =>
       ENABLED (AlarmFired /\ UNCHANGED <<rlvars, bevars, page, timer>>)
  /\ (InFlight("alarm") /\ ~InFlight("force") /\ hist.runs < MaxRuns) =>
       ENABLED (ForceUpdate /\ UNCHANGED <<rlvars, bevars, page, timer>>)
  /\ \A r \in Runs : run[r].apply = "running" => "send" \in run[r].effects

\* both runs have sent their command to the tab and both apply sequences
\* are running in its page at once
C23_Witness ==
  /\ run["alarm"].apply = "running"
  /\ run["force"].apply = "running"
  /\ tab.open
  /\ IsProfileUrl(tab.url)

\* C26: a tick that goes on past the image list never waits forever for a
\* 'complete' tab event: whenever a run waits in waitForTabLoad, the tab is
\* still loading, so that the event the listener waits for is yet to come -
\* also when a profile tab was already open and loaded, and when the tab
\* finished loading before the listener was registered.
C26_TickNeverWaitsForever ==
  \A r \in Runs :
    run[r].pc = "waitLoad" => (tab.open /\ tab.status = "loading")

\* ------------------------------------------------------------------------
\* Claims about saving settings (SpecPopup)
\* ------------------------------------------------------------------------
\* the step is the storage write of saveSettings, or that of the
\* updateSettings handler
SettingsWritten ==
  \/ popup.open /\ popup'.msg
  \/ popup.msg /\ ~popup'.msg

\* C29: saving settings from the popup changes only the keys the user
\* edits: currentImageIndex and lastUpdate keep the values the scheduler
\* wrote last, also when a tick advanced the index after the popup loaded
\* its settings.
C29_SaveKeepsSchedulerKeys ==
  [][SettingsWritten =>
       /\ store'.currentImageIndex = store.currentImageIndex
       /\ store'.lastUpdate = store.lastUpdate]_vars

\* ------------------------------------------------------------------------
\* Claims about the times of scheduled ticks (SpecAlarm)
\* ------------------------------------------------------------------------
\* C27: while auto-update stays enabled with the same frequency settings,
\* two consecutive scheduled ticks are at least the configured period
\* apart (10080 minutes for the weekly default), also across restarts of
\* the service worker and re-saves of the same settings.
C27_TicksOnePeriodApart ==
  store.isEnabled =>
    \A k \in 1..(Len(timer.ticks) - 1) :
      timer.ticks[k + 1] - timer.ticks[k] >= ExpectedPeriod(store)

\* ------------------------------------------------------------------------
\* Claims about a RateLimiter shared by two callers (SpecShared)
\* ------------------------------------------------------------------------
\* the admissions that completed in the timeWindow ending at time t
CompletedBy(t) ==
  {i \in 1..Len(admitted) :
     admitted[i].done <= t /\ admitted[i].done > t - timeWindow}

\* C24: with two callers suspended at the limit at the same time, each
\* re-checks the window when its suspension ends, so that whatever the
\* interleaving no more than maxRequests admissions complete within any
\* timeWindow.
C24_SharedLimiterBounded ==
  \A i \in 1..Len(admitted) :
    Cardinality(CompletedBy(admitted[i].done)) <= maxRequests

\* ------------------------------------------------------------------------
\* Claims about POST /generate-from-base (SpecGenerate)
\* ------------------------------------------------------------------------
\* the folder holds no .png, .jpg, .jpeg or .webp file, in either case of
\* the letters
NoBasePhotoIn(folder) ==
  folder \cap {".png", ".PNG", ".jpg", ".JPG", ".jpeg", ".JPEG",
               ".webp", ".WEBP"} = {}

\* C21: POST /generate-from-base over a base-photo folder that holds no
\* .png, .jpg, .jpeg or .webp file answers 400 with success:false and an
\* error that names the missing base photo; generateImages is not called
\* and no image or metadata file is written.
C21_NoBasePhotoRejected ==
  \A c \in Callers :
    LET g == gen[c] IN
      (g.route = "/generate-from-base" /\ NoBasePhotoIn(g.folder)) =>
        /\ ~g.invoked
        /\ g.written = {}
        /\ g.apiCalls = 0
        /\ AdmissionsOf(c) = 0
        /\ disk.files = g.before.files
        /\ g.pc \in {"baseDirs", "baseRead", "done"}
        /\ g.pc = "done" =>
             /\ g.status = 400
             /\ ~g.result.success
             /\ g.message = "No base photo found"

\* the folder holds a text file only and the request has been answered
C21_Witness ==
  \E c \in Callers :
    /\ gen[c].route = "/generate-from-base"
    /\ gen[c].folder = {".txt"}
    /\ gen[c].pc = "done"
    /\ gen[c].status = 400

\* ------------------------------------------------------------------------
\* Claims about GET /images/:filename
\* ------------------------------------------------------------------------
\* the filenames GET /images lists over the directory as the request left it
ListedWhenServed == Generator_getStoredImages([dir |-> TRUE, files |-> clr.sat])

\* C22: GET /images/:filename answers 404 for every filename that is not in
\* the storage directory and the bytes (200) for every filename GET /images
\* lists, and the filenames that can be retrieved are exactly the listed
\* ones: a 200 is only given for a listed filename
C22_ListedIsRetrievable ==
  clr.spc = "done" =>
    /\ clr.sname \notin clr.sat => clr.sstatus = 404
    /\ clr.sname \in ListedWhenServed => clr.sstatus = 200
    /\ clr.sstatus = 200 => clr.sname \in ListedWhenServed

\* ------------------------------------------------------------------------
\* Claims about the filenames of generated images
\* ------------------------------------------------------------------------
\* the files in generatedImages of caller c's call
ImagesOf(c) == {gen[c].images[k] : k \in 1..Len(gen[c].images)}

\* both calls have returned success
BothReturned == \A c \in Callers : gen[c].pc = "done" /\ gen[c].result.success

\* C25: every image generateImages writes has a filename of its own, within
\* a call and across successive and overlapping calls: no two calls write
\* the same file, and once the calls have returned the number of stored
\* images is the sum of the counts they returned
C25_FilenamesNeverCollide ==
  /\ \A c \in Callers : Cardinality(ImagesOf(c)) = Len(gen[c].images)
  /\ ImagesOf("a") \cap ImagesOf("b") = {}
  /\ BothReturned =>
       Cardinality(Generator_getStoredImages(disk))
         = gen["a"].result.count + gen["b"].result.count

====
